---- MODULE Spec2Model ----
(***************************************************************************)
(* Model of the Mailrify Node SDK HTTP core: the configuration resolver    *)
(* (config.ts), the typed error hierarchy (errors.ts) and the dispatcher   *)
(* HttpClient (client.ts): request / dispatch / retry / interceptors.      *)
(***************************************************************************)
EXTENDS Integers, Sequences, FiniteSets, TLC

(***************************************************************************)
(* Bounds of the exploration.                                              *)
(***************************************************************************)
\* largest maxRetries a caller configures explicitly
MaxRetriesBound == 1
\* largest number of interceptors registered on one hook
MaxInterceptors == 2
\* longest apiKey string explored by the configuration resolver
MaxKeyLen == 2
\* longest retry-after header text explored by the error builder
MaxHeaderLen == 2
MaxHeaderEntries == 2
MaxQueryKeys == 2
MaxItems == 2
\* most emails in one batch
MaxBatch == 2

(***************************************************************************)
(* JavaScript values: undefined, null, NaN, numbers, strings, others.      *)
(***************************************************************************)
JSUndefined == [tag |-> "undefined", val |-> 0, str |-> <<>>]
JSNull == [tag |-> "null", val |-> 0, str |-> <<>>]
JSNaN == [tag |-> "nan", val |-> 0, str |-> <<>>]
JSInfinity == [tag |-> "infinity", val |-> 0, str |-> <<>>]
\* an object JSON.stringify throws a TypeError on: a cycle, a BigInt inside
JSCircular == [tag |-> "circular", val |-> 0, str |-> <<>>]
JSFunction == [tag |-> "function", val |-> 0, str |-> <<>>]
JSTrue == [tag |-> "true", val |-> 0, str |-> <<>>]
JSFalse == [tag |-> "false", val |-> 0, str |-> <<>>]
JSNum(n) == [tag |-> "num", val |-> n, str |-> <<>>]
JSStr(s) == [tag |-> "string", val |-> 0, str |-> s]

IsNullish(v) == v.tag \in {"undefined", "null"}

\* JavaScript truthiness: undefined, null, NaN, 0 and "" are falsy
Truthy(v) ==
    CASE v.tag \in {"undefined", "null", "nan", "false"} -> FALSE
      [] v.tag = "num" -> v.val # 0
      [] v.tag = "string" -> v.str # <<>>
      [] OTHER -> TRUE

\* a ?? b
Coalesce(a, b) == IF IsNullish(a) THEN b ELSE a

\* a < n for a JavaScript value a and an integer n (NaN compares false)
JSLess(a, n) ==
    CASE a.tag = "num" -> a.val < n
      [] a.tag = "null" -> 0 < n
      [] OTHER -> FALSE

\* a <= n
JSLessEq(a, n) ==
    CASE a.tag = "num" -> a.val <= n
      [] a.tag = "null" -> 0 <= n
      [] OTHER -> FALSE

\* Number.isFinite(a)
JSIsFinite(a) == a.tag = "num"

\* all sequences over S of length at most n
RECURSIVE SeqsUpTo(_, _)
SeqsUpTo(S, n) ==
    IF n = 0 THEN {<<>>}
    ELSE LET shorter == SeqsUpTo(S, n - 1)
         IN shorter \cup {Append(s, c) : s \in {t \in shorter : Len(t) = n - 1}, c \in S}

\* String.prototype.trim
RECURSIVE TrimLeft(_)
TrimLeft(s) == IF s # <<>> /\ Head(s) = " " THEN TrimLeft(Tail(s)) ELSE s
RECURSIVE TrimRight(_)
TrimRight(s) ==
    IF s # <<>> /\ s[Len(s)] = " " THEN TrimRight(SubSeq(s, 1, Len(s) - 1)) ELSE s
Trim(s) == TrimRight(TrimLeft(s))

\* .replace(/\/*$/, '')
RECURSIVE StripTrailingSlashes(_)
StripTrailingSlashes(p) ==
    IF p # <<>> /\ p[Len(p)] = "/" THEN StripTrailingSlashes(SubSeq(p, 1, Len(p) - 1))
    ELSE p

(***************************************************************************)
(* Error taxonomy (errors.ts).  An error value carries its class, its      *)
(* status and retryAfter fields, and its identity: the attempt in which    *)
(* it was created and the step that created it.                            *)
(***************************************************************************)
TypedKinds == {"MailrifyError", "HTTPError", "AuthError", "RateLimitError", "ValidationError"}

\* The message of an error: the pieces of its text, and the status written
\* into it when it is composed from the response. NoMessage stands for the messages of errors
\* that are not built from a response.
Message(text, status) == [text |-> text, status |-> status]
NoMessage == Message(<<>>, 0)

\* A MailrifyErrorPayload as buildError reads it: payload?.message,
\* payload?.error, payload?.code, payload?.details. NoPayload is undefined.
Payload(message, error, code) ==
    [nullish |-> FALSE, message |-> message, error |-> error, code |-> code,
     details |-> JSUndefined]
NoPayload ==
    [nullish |-> TRUE, message |-> JSUndefined, error |-> JSUndefined,
     code |-> JSUndefined, details |-> JSUndefined]

\* The details of an error: the value of the payload's details field, or
\* (whole) the parsed payload itself. NoDetails is undefined.
NoDetails == [whole |-> FALSE, value |-> JSUndefined, payload |-> NoPayload]

NoError == [kind |-> "none", status |-> JSUndefined, retryAfter |-> JSUndefined,
            at |-> 0, src |-> "none", message |-> NoMessage, code |-> JSUndefined,
            details |-> NoDetails, requestId |-> JSUndefined]

\* new MailrifyError(message, options): status is options.status
MailrifyError(status, at, src) ==
    [kind |-> "MailrifyError", status |-> status, retryAfter |-> JSUndefined,
     at |-> at, src |-> src, message |-> NoMessage, code |-> JSUndefined,
     details |-> NoDetails, requestId |-> JSUndefined]

\* new HTTPError(message, {status}): status is options.status
HTTPError(status, at, src) ==
    [MailrifyError(status, at, src) EXCEPT !.kind = "HTTPError"]

\* new ValidationError(message, options): status is options.status ?? 400
ValidationError(status, at, src) ==
    [MailrifyError(Coalesce(status, JSNum(400)), at, src) EXCEPT !.kind = "ValidationError"]

\* new AuthError(message, options): status is options.status ?? 401
AuthError(status, at, src) ==
    [HTTPError(Coalesce(status, JSNum(401)), at, src) EXCEPT !.kind = "AuthError"]

\* new RateLimitError(message, options): status is options.status ?? 429
RateLimitError(status, retryAfter, at, src) ==
    [HTTPError(Coalesce(status, JSNum(429)), at, src)
        EXCEPT !.kind = "RateLimitError", !.retryAfter = retryAfter]

\* an exception that is no member of the hierarchy (TypeError, DOMException, ...)
PlainError(kind, at, src) ==
    [kind |-> kind, status |-> JSUndefined, retryAfter |-> JSUndefined,
     at |-> at, src |-> src, message |-> NoMessage, code |-> JSUndefined,
     details |-> NoDetails, requestId |-> JSUndefined]

\* error instanceof MailrifyError / HTTPError / RateLimitError
IsMailrifyError(e) == e.kind \in TypedKinds
IsHTTPError(e) == e.kind \in {"HTTPError", "AuthError", "RateLimitError"}
IsRateLimitError(e) == e.kind = "RateLimitError"

(***************************************************************************)
(* Configuration resolver (config.ts).                                     *)
(***************************************************************************)
DEFAULT_TIMEOUT == 30000
DEFAULT_MAX_RETRIES == 2
DEFAULT_RETRY_DELAY == 500

KeyChars == {" ", "k"}

\* the raw ClientConfig objects handed to the constructor
ApiKeyValues ==
    {JSUndefined, JSNull, JSNum(0), JSNum(7)} \cup {JSStr(s) : s \in SeqsUpTo(KeyChars, MaxKeyLen)}
\* the text of an address is a sequence of pieces: an origin (scheme and
\* host), "/", or a path segment
Origins == {"https://app.mailrify.com", "https://h"}
DEFAULT_BASE_URL == <<"https://app.mailrify.com", "/", "api">>
BaseUrlValues ==
    {JSUndefined, JSNull, JSNum(0), JSNum(7), JSStr(<<"u">>), JSStr(<<>>), JSStr(<<"/">>),
     JSStr(<<"https://h">>), JSStr(<<"https://h", "/">>),
     JSStr(<<"https://h", "/", "a", "/", "/">>)}
FetchValues == {JSUndefined, JSNull, JSFunction, JSStr(<<"k">>)}
AmbientFetchValues == {JSUndefined, JSFunction}
MaxRetriesValues == {JSUndefined, JSNaN} \cup {JSNum(n) : n \in -1 .. MaxRetriesBound}
RetryDelayValues == {JSUndefined, JSNum(-1), JSNum(0)}
TimeoutValues == {JSUndefined, JSNum(0), JSNum(5000), JSInfinity}

RawConfigs ==
    [apiKey : ApiKeyValues, baseUrl : BaseUrlValues, fetch : FetchValues,
     maxRetries : MaxRetriesValues, retryDelayMs : RetryDelayValues, timeout : TimeoutValues,
     nRequest : 0 .. MaxInterceptors, nResponse : 0 .. MaxInterceptors,
     nError : 0 .. MaxInterceptors]

NoConfig ==
    [apiKey : {JSUndefined}, baseUrl : {JSUndefined}, fetch : {JSUndefined},
     timeout : {JSUndefined}, maxRetries : {JSUndefined}, retryDelayMs : {JSUndefined},
     nRequest : {0}, nResponse : {0}, nError : {0}]

\* validateConfig with the apiKey test written without trim()
validateConfig_NoTrim(c) ==
    IF ~Truthy(c.apiKey) \/ c.apiKey.tag # "string" \/ Len(c.apiKey.str) = 0
    THEN ValidationError(JSUndefined, 0, "validateConfig")
    ELSE IF Truthy(c.baseUrl) /\ c.baseUrl.tag # "string"
    THEN ValidationError(JSUndefined, 0, "validateConfig")
    ELSE IF c.timeout # JSUndefined /\ (~JSIsFinite(c.timeout) \/ JSLessEq(c.timeout, 0))
    THEN ValidationError(JSUndefined, 0, "validateConfig")
    ELSE IF c.maxRetries # JSUndefined /\ JSLess(c.maxRetries, 0)
    THEN ValidationError(JSUndefined, 0, "validateConfig")
    ELSE IF c.retryDelayMs # JSUndefined /\ JSLess(c.retryDelayMs, 0)
    THEN ValidationError(JSUndefined, 0, "validateConfig")
    ELSE NoError

\* validateConfig: the error it throws, or NoError
validateConfig(c) ==
    IF ~Truthy(c.apiKey) \/ c.apiKey.tag # "string" \/ Len(Trim(c.apiKey.str)) = 0
    THEN ValidationError(JSUndefined, 0, "validateConfig")
    ELSE IF Truthy(c.baseUrl) /\ c.baseUrl.tag # "string"
    THEN ValidationError(JSUndefined, 0, "validateConfig")
    ELSE IF c.timeout # JSUndefined /\ (~JSIsFinite(c.timeout) \/ JSLessEq(c.timeout, 0))
    THEN ValidationError(JSUndefined, 0, "validateConfig")
    ELSE IF c.maxRetries # JSUndefined /\ JSLess(c.maxRetries, 0)
    THEN ValidationError(JSUndefined, 0, "validateConfig")
    ELSE IF c.retryDelayMs # JSUndefined /\ JSLess(c.retryDelayMs, 0)
    THEN ValidationError(JSUndefined, 0, "validateConfig")
    ELSE NoError

\* the base address kept as it was supplied
resolveBaseUrl_AsGiven(b) == IF IsNullish(b) THEN JSStr(DEFAULT_BASE_URL) ELSE b

\* config.baseUrl?.replace(/\/+$/, '') ?? DEFAULT_BASE_URL, for a nullish or
\* string baseUrl
resolveBaseUrl(b) ==
    IF IsNullish(b) THEN JSStr(DEFAULT_BASE_URL) ELSE JSStr(StripTrailingSlashes(b.str))

\* the resolved configuration built by resolveConfig's return statement
ResolvedOf(c, fetchImpl) ==
    [apiKey |-> c.apiKey,
     baseUrl |-> resolveBaseUrl(c.baseUrl),
     timeout |-> Coalesce(c.timeout, JSNum(DEFAULT_TIMEOUT)),
     fetch |-> fetchImpl,
     maxRetries |-> Coalesce(c.maxRetries, JSNum(DEFAULT_MAX_RETRIES)),
     retryDelayMs |-> Coalesce(c.retryDelayMs, JSNum(DEFAULT_RETRY_DELAY)),
     nRequest |-> c.nRequest, nResponse |-> c.nResponse, nError |-> c.nError]

\* the error thrown when no fetch implementation is available
MissingFetchError == PlainError("Error", 0, "resolveConfig")

\* the TypeError of .replace called on a baseUrl that is no string
NotAStringError == PlainError("TypeError", 0, "resolveConfig")

\* resolveConfig(config) with globalThis.fetch = ambient:
\* [error |-> thrown error or NoError, config |-> resolved configuration]
resolveConfig(c, ambient) ==
    LET invalid == validateConfig(c)
        fetchImpl == Coalesce(c.fetch, ambient)
    IN IF invalid # NoError THEN [error |-> invalid, config |-> CHOOSE n \in NoConfig : TRUE]
       ELSE IF ~IsNullish(c.baseUrl) /\ c.baseUrl.tag # "string"
       THEN [error |-> NotAStringError, config |-> CHOOSE n \in NoConfig : TRUE]
       ELSE IF fetchImpl.tag # "function"
       THEN [error |-> MissingFetchError, config |-> CHOOSE n \in NoConfig : TRUE]
       ELSE [error |-> NoError, config |-> ResolvedOf(c, fetchImpl)]

(***************************************************************************)
(* Responses and their decoding (client.ts: parseResponse, buildError).    *)
(***************************************************************************)
\* A Response: its status, its retry-after header (null when absent), whether
\* its content-type contains application/json, whether its content-length
\* header is "0", its body text, and its x-request-id header (null when
\* absent).
Response(status, retryAfter, json, zeroLength, body) ==
    [status |-> status, retryAfter |-> retryAfter, json |-> json,
     zeroLength |-> zeroLength, body |-> body, requestId |-> JSNull]

\* the response with an x-request-id header
WithRequestId(r, id) == [r EXCEPT !.requestId = id]

NoResponse == Response(0, JSNull, FALSE, FALSE, "")

\* the body of a response whose stream cannot be read (already consumed,
\* broken connection): response.json() and response.text() reject
Unreadable == "<unreadable>"

\* response.ok
Ok(r) == r.status >= 200 /\ r.status <= 299

\* The value a call resolves with: undefined, a decoded JSON object, or text.
ValUndefined == [tag |-> "undefined", obj |-> [ok |-> FALSE], text |-> ""]
ValJson(o) == [tag |-> "json", obj |-> o, text |-> ""]
ValText(t) == [tag |-> "text", obj |-> [ok |-> FALSE], text |-> t]
ValNull == [tag |-> "null", obj |-> [ok |-> FALSE], text |-> ""]

\* JSON.parse on the body texts the transport produces; anything else is a
\* SyntaxError
JsonTexts == {"{\"ok\":true}", "{\"ok\":false}"}
JsonParse(t) ==
    CASE t = "{\"ok\":true}" -> [ok |-> TRUE]
      [] t = "{\"ok\":false}" -> [ok |-> FALSE]

\* the body text that is the JSON value null
NullJson == "null"

\* parseResponse with the content-type looked at before the status and the
\* content-length
readBody_TypeFirst(r) ==
    IF r.json
    THEN IF r.body = NullJson THEN [threw |-> FALSE, value |-> ValNull]
         ELSE IF r.body \in JsonTexts
         THEN [threw |-> FALSE, value |-> ValJson(JsonParse(r.body))]
         ELSE [threw |-> TRUE, value |-> ValUndefined]
    ELSE IF r.status = 204 \/ r.zeroLength THEN [threw |-> FALSE, value |-> ValUndefined]
    ELSE IF r.body = Unreadable THEN [threw |-> TRUE, value |-> ValUndefined]
    ELSE IF r.body # "" THEN [threw |-> FALSE, value |-> ValText(r.body)]
    ELSE [threw |-> FALSE, value |-> ValUndefined]

\* parseResponse(response):
\* [threw |-> json() or text() rejected, value |-> what was returned]
readBody(r) ==
    IF r.status = 204 \/ r.zeroLength THEN [threw |-> FALSE, value |-> ValUndefined]
    ELSE IF r.json
    THEN IF r.body = NullJson THEN [threw |-> FALSE, value |-> ValNull]
         ELSE IF r.body \in JsonTexts
         THEN [threw |-> FALSE, value |-> ValJson(JsonParse(r.body))]
         ELSE [threw |-> TRUE, value |-> ValUndefined]
    ELSE IF r.body = Unreadable THEN [threw |-> TRUE, value |-> ValUndefined]
    ELSE IF r.body # "" THEN [threw |-> FALSE, value |-> ValText(r.body)]
    ELSE [threw |-> FALSE, value |-> ValUndefined]

\* (await this.parseResponse(finalResponse)) ?? undefined:
\* [threw |-> a SyntaxError or TypeError was raised, value |-> the value returned]
parseResponse(r) ==
    [threw |-> readBody(r).threw,
     value |-> IF readBody(r).value = ValNull THEN ValUndefined ELSE readBody(r).value]

\* Number.parseInt(s, 10): leading blanks, an optional sign, then the longest
\* prefix of decimal digits; NaN when there is no digit
DigitChars == <<"0", "1", "2", "3", "4", "5", "6", "7", "8", "9">>
IsDigit(c) == \E i \in 1 .. 10 : DigitChars[i] = c
DigitVal(c) == (CHOOSE i \in 1 .. 10 : DigitChars[i] = c) - 1

RECURSIVE DigitPrefix(_, _, _)
\* [any |-> a digit was read, n |-> the value read so far]
DigitPrefix(s, any, n) ==
    IF s # <<>> /\ IsDigit(Head(s))
    THEN DigitPrefix(Tail(s), TRUE, 10 * n + DigitVal(Head(s)))
    ELSE [any |-> any, n |-> n]

ParseInt(s) ==
    LET t == TrimLeft(s)
        neg == t # <<>> /\ Head(t) = "-"
        signed == t # <<>> /\ Head(t) \in {"-", "+"}
        d == DigitPrefix(IF signed THEN Tail(t) ELSE t, FALSE, 0)
    IN IF ~d.any THEN JSNaN ELSE JSNum(IF neg THEN 0 - d.n ELSE d.n)

\* a * n for a JavaScript number a
JSTimes(a, n) == IF a.tag = "num" THEN JSNum(a.val * n) ELSE JSNaN

\* the retryAfter buildError computes from the retry-after header
RetryAfterOf(header) ==
    IF Truthy(header) THEN JSTimes(ParseInt(header.str), 1000) ELSE JSUndefined

\* buildError with 403 left out of the AuthError test
buildError_403Generic(r, at) ==
    IF r.status = 401
    THEN AuthError(JSNum(r.status), at, "status")
    ELSE IF r.status = 429
    THEN RateLimitError(JSNum(r.status), RetryAfterOf(r.retryAfter), at, "status")
    ELSE HTTPError(JSNum(r.status), at, "status")

\* buildError throwing a bare Error for the statuses without a class of their own
buildError_BareError(r, at) ==
    IF r.status = 401 \/ r.status = 403
    THEN AuthError(JSNum(r.status), at, "status")
    ELSE IF r.status = 429
    THEN RateLimitError(JSNum(r.status), RetryAfterOf(r.retryAfter), at, "status")
    ELSE PlainError("Error", at, "status")

\* response.json() on the bodies of error responses
MessageJson == "{\"message\":\"m\",\"code\":\"c\"}"
ErrorJson == "{\"error\":\"e\"}"
DetailsJson == "{\"message\":\"m\",\"details\":\"d\"}"
NullDetailsJson == "{\"code\":\"c\",\"details\":null}"
ErrorJsonTexts == JsonTexts \cup {MessageJson, ErrorJson, DetailsJson, NullDetailsJson}
ErrorJsonParse(t) ==
    CASE t = MessageJson -> Payload(JSStr(<<"m">>), JSUndefined, JSStr(<<"c">>))
      [] t = ErrorJson -> Payload(JSUndefined, JSStr(<<"e">>), JSUndefined)
      [] t = DetailsJson ->
            [Payload(JSStr(<<"m">>), JSUndefined, JSUndefined)
                EXCEPT !.details = JSStr(<<"d">>)]
      [] t = NullDetailsJson ->
            [Payload(JSUndefined, JSUndefined, JSStr(<<"c">>))
                EXCEPT !.details = JSNull]
      [] OTHER -> Payload(JSUndefined, JSUndefined, JSUndefined)

\* the try block of safeParseError:
\* [threw |-> json() or text() rejected, payload |-> what was returned]
ReadPayload(r) ==
    IF r.json
    THEN IF r.body \in ErrorJsonTexts
         THEN [threw |-> FALSE, payload |-> ErrorJsonParse(r.body)]
         ELSE [threw |-> TRUE, payload |-> NoPayload]
    ELSE IF r.body = Unreadable THEN [threw |-> TRUE, payload |-> NoPayload]
    ELSE IF r.body = "" THEN [threw |-> FALSE, payload |-> NoPayload]
    ELSE [threw |-> FALSE, payload |-> Payload(JSStr(<<r.body>>), JSUndefined, JSUndefined)]

\* safeParseError without its catch clause
safeParseError_NoCatch(r) == ReadPayload(r)

\* safeParseError(response): catch returns undefined
safeParseError(r) ==
    IF ReadPayload(r).threw THEN [threw |-> FALSE, payload |-> NoPayload]
    ELSE ReadPayload(r)

\* the messages buildError falls back to
UnauthorizedMessage == Message(<<"Unauthorized request.">>, 0)
RateLimitMessage == Message(<<"Rate limit exceeded.">>, 0)
FailedMessage(status) ==
    Message(<<"Request to ", "${pathname}", " failed with status ", "${status}", ".">>, status)
PayloadMessage(v) == Message(v.str, 0)

\* a ?? b ?? c over the message candidates
FirstMessage(a, b, fallback) ==
    IF ~IsNullish(a) THEN PayloadMessage(a)
    ELSE IF ~IsNullish(b) THEN PayloadMessage(b)
    ELSE fallback

\* the payload itself as details, whatever its details field holds
detailsOf_Whole(payload) ==
    IF payload.nullish THEN NoDetails
    ELSE [whole |-> TRUE, value |-> JSUndefined, payload |-> payload]

\* payload?.details ?? payload
detailsOf(payload) ==
    IF payload.nullish THEN NoDetails
    ELSE IF ~IsNullish(payload.details)
    THEN [whole |-> FALSE, value |-> payload.details, payload |-> NoPayload]
    ELSE [whole |-> TRUE, value |-> JSUndefined, payload |-> payload]

\* baseDetails handed to the constructor: code, details and requestId
\* (this.requestId = options.requestId ?? undefined)
WithBaseDetails(e, r, payload) ==
    [e EXCEPT !.code = payload.code,
              !.details = detailsOf(payload),
              !.requestId = Coalesce(r.requestId, JSUndefined)]

\* the error with its message
Described(e, message) == [e EXCEPT !.message = message]

\* buildError(response, context), created during attempt `at`; an exception
\* of safeParseError leaves buildError as it is
buildError(r, at) ==
    LET parsed == safeParseError(r)
        payload == parsed.payload
    IN IF parsed.threw THEN PlainError("SyntaxError", at, "parse")
       ELSE IF r.status = 401 \/ r.status = 403
       THEN Described(WithBaseDetails(AuthError(JSNum(r.status), at, "status"),
                                      r, payload),
                      FirstMessage(payload.message, payload.error, UnauthorizedMessage))
       ELSE IF r.status = 429
       THEN Described(WithBaseDetails(RateLimitError(JSNum(r.status),
                                                     RetryAfterOf(r.retryAfter),
                                                     at, "status"),
                                      r, payload),
                      FirstMessage(payload.message, JSUndefined, RateLimitMessage))
       ELSE Described(WithBaseDetails(HTTPError(JSNum(r.status), at, "status"),
                                      r, payload),
                      FirstMessage(payload.message, payload.error, FailedMessage(r.status)))

(***************************************************************************)
(* Retry policy (client.ts: request, shouldRetry, getRetryDelay).          *)
(***************************************************************************)
Methods == {"GET", "HEAD", "POST", "PUT", "PATCH", "DELETE"}
IdempotentValues == {JSUndefined, JSTrue, JSFalse}

\* the budget counted as a number of attempts instead of a number of retries
budgetOf_OffByOne(options, cfg) ==
    IF options.idempotent = JSFalse THEN 0 ELSE cfg.maxRetries.val + 1

\* const maxRetries = options.idempotent === false ? 0 : config.retry.maxRetries
budgetOf(options, cfg) ==
    IF options.idempotent = JSFalse THEN 0 ELSE cfg.maxRetries.val

\* the verb alone decides, whatever options.idempotent says
isIdempotent_VerbOnly(method, options) == method \in {"GET", "HEAD"}

\* every verb idempotent unless told otherwise
isIdempotent_DefaultTrue(method, options) ==
    IF IsNullish(options.idempotent) THEN TRUE
    ELSE Truthy(options.idempotent)

\* options.idempotent ?? (method === 'GET' || method === 'HEAD')
isIdempotent(method, options) ==
    IF IsNullish(options.idempotent) THEN method \in {"GET", "HEAD"}
    ELSE Truthy(options.idempotent)

\* shouldRetry without the test of the budget
shouldRetry_NoBudget(method, error, options, att, maxR) ==
    IF ~(IF IsNullish(options.idempotent) THEN method \in {"GET", "HEAD"}
         ELSE Truthy(options.idempotent)) THEN FALSE
    ELSE IF IsRateLimitError(error) THEN TRUE
    ELSE IF IsHTTPError(error) THEN error.status.val >= 500
    ELSE IF IsMailrifyError(error) THEN FALSE
    ELSE TRUE

\* shouldRetry with status > 500 in place of status >= 500
shouldRetry_Above500(method, error, options, att, maxR) ==
    IF att >= maxR THEN FALSE
    ELSE IF ~(IF IsNullish(options.idempotent) THEN method \in {"GET", "HEAD"}
              ELSE Truthy(options.idempotent)) THEN FALSE
    ELSE IF IsRateLimitError(error) THEN TRUE
    ELSE IF IsHTTPError(error) THEN error.status.val > 500
    ELSE IF IsMailrifyError(error) THEN FALSE
    ELSE TRUE

\* shouldRetry without the instanceof MailrifyError test
shouldRetry_TypedRetried(method, error, options, att, maxR) ==
    IF att >= maxR THEN FALSE
    ELSE IF ~(IF IsNullish(options.idempotent) THEN method \in {"GET", "HEAD"}
              ELSE Truthy(options.idempotent)) THEN FALSE
    ELSE IF IsRateLimitError(error) THEN TRUE
    ELSE IF IsHTTPError(error) THEN error.status.val >= 500
    ELSE TRUE

\* shouldRetry giving up one attempt early
shouldRetry_OneShort(method, error, options, att, maxR) ==
    IF att + 1 >= maxR THEN FALSE
    ELSE IF ~(IF IsNullish(options.idempotent) THEN method \in {"GET", "HEAD"}
              ELSE Truthy(options.idempotent)) THEN FALSE
    ELSE IF IsRateLimitError(error) THEN TRUE
    ELSE IF IsHTTPError(error) THEN error.status.val >= 500
    ELSE IF IsMailrifyError(error) THEN FALSE
    ELSE TRUE

\* shouldRetry(method, error, options, attempt, maxRetries)
shouldRetry(method, error, options, att, maxR) ==
    IF att >= maxR THEN FALSE
    ELSE IF ~isIdempotent(method, options) THEN FALSE
    ELSE IF IsRateLimitError(error) THEN TRUE
    ELSE IF IsHTTPError(error) THEN error.status.val >= 500
    ELSE IF IsMailrifyError(error) THEN FALSE
    ELSE TRUE

RECURSIVE Pow2(_)
Pow2(n) == IF n = 0 THEN 1 ELSE 2 * Pow2(n - 1)

\* getRetryDelay(error, attempt)
getRetryDelay(error, att, cfg) ==
    IF IsRateLimitError(error) /\ Truthy(error.retryAfter) THEN error.retryAfter.val
    ELSE cfg.retryDelayMs.val * Pow2(att)

(***************************************************************************)
(* State.                                                                  *)
(***************************************************************************)
VARIABLES
    rawConfig,      \* the ClientConfig handed to the HttpClient constructor
    ambientFetch,   \* globalThis.fetch
    client,         \* "new", "ready" (constructed) or "failed" (constructor threw)
    ctorError,      \* the error the constructor threw, or NoError
    config,         \* this.config, the resolved configuration
    call,           \* method and options of the call in progress
    pc,             \* position of the call inside request / dispatch
    attempt,        \* the loop variable of request
    maxRetries,     \* the local maxRetries of request (the retry budget)
    lastError,      \* the local lastError of request
    idx,            \* index of the next interceptor of the running pipeline
    thrown,         \* the error caught by dispatch's catch clause
    dispatchError,  \* the error with which dispatch rejected
    response,       \* finalResponse of dispatch
    fetched,        \* transport invocations of the current attempt
    fetchCalls,     \* transport invocations of the current call
    delays,         \* the backoff delays awaited by the current call
    hist,           \* per finished attempt: the error dispatch rejected with (err),
                    \* the step whose error its catch clause caught (raisedIn),
                    \* and its transport invocations (fetched)
    result,         \* how the call settled
    requestContext, \* next of runRequestInterceptors / requestContext of dispatch
    reqRuns,        \* the request interceptor runs of the attempt: which interceptor
                    \* (who), the context it received (got) and returned (gave)
    sent,           \* the context this.config.fetch was invoked with
    respRuns,       \* the response interceptor runs of the attempt: the response
                    \* each received (got) and returned (gave)
    errRuns,        \* the error interceptor runs of the attempt: which interceptor
                    \* (who) and the error it received
    headersArg,     \* what a header set is built from: config.headers, the
                    \* per-call headers, config.userAgent, the platform, and the
                    \* change a request interceptor makes
    headers,        \* init.headers of a request, or response.headers
    records,        \* what console.debug was called with
    urlArg,         \* the arguments of buildUrl: config.baseUrl, path, query
    url,            \* the URL buildUrl returned
    controllers,    \* per attempt of the call that reached it: the AbortController
                    \* and timeout timer dispatch created
    cancel,         \* options.timeout and options.signal of the call in progress
    invocation,     \* the resource method invoked last, with its arguments
    dispatched,     \* the calls that invocation made on the HttpClient
    calls           \* the calls in flight at once on one client: per call the
                    \* locals of its request and dispatch invocations

vars == <<rawConfig, ambientFetch, client, ctorError, config, call, pc, attempt,
          maxRetries, lastError, idx, thrown, dispatchError, response, fetched,
          fetchCalls, delays, hist, result, requestContext, reqRuns, sent,
          respRuns, errRuns, headersArg, headers, records, urlArg, url, invocation, dispatched,
          controllers, cancel, calls>>

callVars == <<call, pc, attempt, maxRetries, lastError, idx, thrown, dispatchError,
              response, fetched, fetchCalls, delays, hist, result,
              requestContext, reqRuns, sent, respRuns, errRuns,
             controllers, cancel>>

clientVars == <<rawConfig, ambientFetch, client, ctorError, config>>

\* the locals of dispatch that hold the request context
dispatchVars == <<requestContext, reqRuns, sent, respRuns, errRuns>>

\* the cancellation state of a call
abortVars == <<controllers, cancel>>

\* options.timeout, and options.signal: whether one was supplied and whether
\* it is aborted
Cancel(timeout, given, aborted) == [timeout |-> timeout, given |-> given, aborted |-> aborted]
NoCancel == Cancel(JSUndefined, FALSE, FALSE)

\* a controller whose signal ignores the state of the caller's signal
NewController_IgnoresSignal(c, cfg) ==
    [aborted |-> FALSE,
     reason |-> "none",
     armed |-> TRUE,
     ms |-> Coalesce(c.timeout, cfg.timeout),
     listening |-> c.given /\ ~c.aborted,
     fired |-> FALSE,
     handed |-> FALSE,
     abortedWhenHanded |-> FALSE]

\* new AbortController(), setTimeout(() => controller.abort(), timeout) and
\* the wiring to options.signal: whether controller.signal is aborted and
\* why, whether the timer is armed and its duration, whether the abort
\* listener is on options.signal, whether the timer fired, whether the signal
\* was handed to the transport and whether it was aborted then
NewController(c, cfg) ==
    [aborted |-> c.given /\ c.aborted,
     reason |-> IF c.given /\ c.aborted THEN "caller" ELSE "none",
     armed |-> TRUE,
     ms |-> Coalesce(c.timeout, cfg.timeout),
     listening |-> c.given /\ ~c.aborted,
     fired |-> FALSE,
     handed |-> FALSE,
     abortedWhenHanded |-> FALSE]

\* the timer of the running attempt left armed
ClearTimeout_Not(cs) == cs

\* clearTimeout(timeoutId), for the timer of the running attempt
ClearTimeout(cs) ==
    IF cs = <<>> THEN cs ELSE [cs EXCEPT ![Len(cs)].armed = FALSE]

\* init.signal = controller.signal reaches this.config.fetch
HandOver(cs) ==
    [cs EXCEPT ![Len(cs)].handed = TRUE, ![Len(cs)].abortedWhenHanded = cs[Len(cs)].aborted]

\* the options of a call: idempotent, body, timeout, and signal ("none" when
\* absent, "live" or "aborted" otherwise)
Options(idempotent, body, timeout, signal) ==
    [idempotent |-> idempotent, body |-> body, timeout |-> timeout, signal |-> signal]

NoAbort ==
    /\ controllers = <<>>
    /\ cancel = NoCancel

\* A request context { url, init }, by the header changes request interceptors
\* made to it, in the order they were made; NoContext is null / undefined.
\* init.body: nothing, the body as it was given, or its JSON text
NoBody == [kind |-> "none", of |-> JSUndefined]
RawBody(b) == [kind |-> "raw", of |-> b]
JsonBody(b) == [kind |-> "json", of |-> b]

Context(h) == [nullish |-> FALSE, headers |-> h, body |-> NoBody]
NoContext == [nullish |-> TRUE, headers |-> <<>>, body |-> NoBody]
\* let requestContext = { url, init }
InitialContext == Context(<<>>)
NoDispatch ==
    /\ requestContext = InitialContext
    /\ reqRuns = <<>>
    /\ sent = NoContext
    /\ respRuns = <<>>
    /\ errRuns = <<>>

(***************************************************************************)
(* Header sets: buildHeaders and logDebug.                                 *)
(***************************************************************************)
\* An object literal (Record<string, string>): its properties in insertion
\* order, no key twice.
Entry(k, v) == [key |-> k, value |-> v]
Objects(K, V, n) ==
    {o \in SeqsUpTo({Entry(k, v) : k \in K, v \in V}, n) :
        \A i, j \in 1 .. Len(o) : i # j => o[i].key # o[j].key}

\* the text of a string value
RECURSIVE Join(_)
Join(q) == IF q = <<>> THEN "" ELSE q[1] \o Join(Tail(q))

\* A Headers object: the value of every header name, names in lower case.
HeaderNames ==
    {"accept", "authorization", "x-mailrify-client", "user-agent", "x-extra",
     "content-type"}
NoValue == "(none)"
EmptyHeaders == [n \in HeaderNames |-> NoValue]

\* Headers lower-cases the names it is given
Lower(k) ==
    CASE k = "Accept" -> "accept"
      [] k = "Authorization" -> "authorization"
      [] k = "X-Extra" -> "x-extra"
      [] k = "Content-Type" -> "content-type"
      [] OTHER -> k

\* headers.set(key, value)
HeadersSet(h, k, v) == [h EXCEPT ![Lower(k)] = v]

\* for (const [key, value] of Object.entries(o)) headers.set(key, value)
RECURSIVE SetEntries(_, _)
SetEntries(h, o) ==
    IF o = <<>> THEN h
    ELSE SetEntries(HeadersSet(h, o[1].key, o[1].value), Tail(o))

\* `Bearer ${this.config.apiKey}`
Bearer(apiKey) == "Bearer " \o Join(apiKey.str)

\* the configured headers merged after the forced ones
buildHeaders_StaticLast(cfg, cfgHeaders, userAgent, inBrowser, overrideHeaders) ==
    LET defaults == HeadersSet(EmptyHeaders, "Accept", "application/json")
        auth == HeadersSet(defaults, "authorization", Bearer(cfg.apiKey))
        forced == SetEntries(HeadersSet(auth, "x-mailrify-client", "mailrify"), cfgHeaders)
    IN IF overrideHeaders.given THEN SetEntries(forced, overrideHeaders.entries)
       ELSE forced

\* buildHeaders(overrideHeaders)
buildHeaders(cfg, cfgHeaders, userAgent, inBrowser, overrideHeaders) ==
    LET defaults == HeadersSet(EmptyHeaders, "Accept", "application/json")
        static == SetEntries(defaults, cfgHeaders)
        auth == HeadersSet(static, "authorization", Bearer(cfg.apiKey))
        ident == HeadersSet(auth, "x-mailrify-client", "mailrify")
        agent == IF Truthy(userAgent) /\ ~inBrowser
                 THEN HeadersSet(ident, "user-agent", Join(userAgent.str))
                 ELSE ident
    IN IF overrideHeaders.given THEN SetEntries(agent, overrideHeaders.entries)
       ELSE agent

\* nothing is replaced
redact_Nothing(h) == h

\* redact(headers) of logDebug
redact(h) ==
    [n \in HeaderNames |->
        IF h[n] = NoValue THEN NoValue
        ELSE IF n = "authorization" THEN "REDACTED"
        ELSE h[n]]

\* the record logDebug hands to console.debug, by its kind and headers
logDebug(kind, h) == [kind |-> kind, headers |-> redact(h)]

\* the header names and values callers and servers use; "k" is the credential
HeaderKeys == {"Accept", "Authorization", "X-Extra"}
HeaderTexts == {"v", "k"}
HeaderObjects == Objects(HeaderKeys, HeaderTexts, MaxHeaderEntries)
OverrideValues ==
    {[given |-> FALSE, entries |-> <<>>]}
        \cup {[given |-> TRUE, entries |-> o] : o \in HeaderObjects}
UserAgentValues == {JSUndefined, JSStr(<<"u">>)}

\* what a request interceptor does to init.headers: nothing, headers.set, or
\* a plain object in their place (read through new Headers(...))
HeaderEdits ==
    {[op |-> "none", key |-> "", value |-> ""],
     [op |-> "set", key |-> "authorization", value |-> "v"],
     [op |-> "set", key |-> "X-Extra", value |-> "k"],
     [op |-> "replace", key |-> "Authorization", value |-> "k"]}
ApplyEdit(h, e) ==
    CASE e.op = "none" -> h
      [] e.op = "set" -> HeadersSet(h, e.key, e.value)
      [] e.op = "replace" -> SetEntries(EmptyHeaders, <<Entry(e.key, e.value)>>)

\* the bodies callers give: nothing, null, a string, form data, binary
\* data, a plain object, an object JSON.stringify throws on
JSInstance(class) == [tag |-> class, val |-> 0, str |-> <<>>]
FormBodies == {JSInstance("FormData"), JSInstance("URLSearchParams")}
BinaryBodies == {JSInstance("Blob"), JSInstance("ArrayBuffer"), JSInstance("Uint8Array")}
BodiesOfCalls ==
    {JSUndefined, JSNull, JSStr(<<"s">>), JSInstance("Object"), JSCircular}
        \cup FormBodies \cup BinaryBodies

\* the serialization of options.body in dispatch:
\* [threw |-> JSON.stringify threw, body |-> init.body, headers |-> init.headers]
serializeBody(body, h) ==
    IF IsNullish(body) THEN [threw |-> FALSE, body |-> NoBody, headers |-> h]
    ELSE IF body \in FormBodies \/ body.tag = "string"
    THEN [threw |-> FALSE, body |-> RawBody(body), headers |-> h]
    ELSE IF body = JSCircular THEN [threw |-> TRUE, body |-> NoBody, headers |-> h]
    ELSE [threw |-> FALSE, body |-> JsonBody(body),
          headers |-> IF h["content-type"] # NoValue THEN h
                      ELSE HeadersSet(h, "content-type", "application/json")]

NoHeadersArg ==
    [static |-> <<>>, overrides |-> [given |-> FALSE, entries |-> <<>>],
     userAgent |-> JSUndefined, inBrowser |-> FALSE,
     edit |-> [op |-> "none", key |-> "", value |-> ""]]

NoUrlArg == [base |-> <<>>, path |-> <<>>, query |-> <<>>]
NoUrl == [pathname |-> <<>>, search |-> <<>>, hash |-> <<>>]

(***************************************************************************)
(* Addresses: buildUrl.                                                    *)
(***************************************************************************)
\* A URL object, by its pathname, its search parameters (name and value, in
\* order) and its fragment.
Url(p, q, h) == [pathname |-> p, search |-> q, hash |-> h]

\* an array value
JSArray(items) == [tag |-> "array", val |-> 0, str |-> <<>>, items |-> items]

\* the decimal digits of a natural number
RECURSIVE Digits(_)
Digits(n) ==
    IF n < 10 THEN <<DigitChars[n + 1]>>
    ELSE Append(Digits(n \div 10), DigitChars[(n % 10) + 1])

\* String(value) for the values of a query
String(v) ==
    CASE v.tag = "string" -> v.str
      [] v.tag = "num" -> IF v.val < 0 THEN <<"-">> \o Digits(0 - v.val) ELSE Digits(v.val)
      [] v.tag = "null" -> <<"n", "u", "l", "l">>
      [] OTHER -> <<"u", "n", "d", "e", "f", "i", "n", "e", "d">>

\* .replace(/\/{2,}/g, '/')
RECURSIVE CollapseSlashes(_)
CollapseSlashes(p) ==
    IF Len(p) < 2 THEN p
    ELSE IF p[1] = "/" /\ p[2] = "/" THEN CollapseSlashes(Tail(p))
    ELSE <<p[1]>> \o CollapseSlashes(Tail(p))

\* the pathname buildUrl assigns
joinPath(basePathname, path) ==
    LET basePath == StripTrailingSlashes(basePathname)
        normalizedPath == IF path # <<>> /\ path[1] = "/" THEN Tail(path) ELSE path
        combinedPath ==
            IF basePath = <<>> THEN normalizedPath
            ELSE IF normalizedPath = <<>> THEN basePath
            ELSE basePath \o <<"/">> \o normalizedPath
    IN CollapseSlashes(IF combinedPath # <<>> THEN <<"/">> \o combinedPath ELSE <<"/">>)

\* Object.entries(o): the integer-like keys first, in ascending order, then
\* the other keys in insertion order
IndexOf(k) ==
    CASE k = "1" -> 1
      [] k = "2" -> 2
      [] OTHER -> 0 - 1
IsIndexKey(e) == IndexOf(e.key) >= 0
IsNameKey(e) == IndexOf(e.key) < 0
RECURSIVE SortByIndex(_)
SortByIndex(o) ==
    IF o = <<>> THEN <<>>
    ELSE LET least == CHOOSE i \in 1 .. Len(o) :
                        \A j \in 1 .. Len(o) : IndexOf(o[i].key) <= IndexOf(o[j].key)
         IN <<o[least]>>
              \o SortByIndex(SubSeq(o, 1, least - 1) \o SubSeq(o, least + 1, Len(o)))
ObjectEntries(o) == SortByIndex(SelectSeq(o, IsIndexKey)) \o SelectSeq(o, IsNameKey)

\* url.searchParams.append(key, value)
ParamsAppend(ps, k, v) == Append(ps, Entry(k, v))

\* url.searchParams.set(key, value): the first parameter of that name takes
\* the value and the others of that name go; appended when there is none
RECURSIVE ParamsReplace(_, _, _, _)
ParamsReplace(ps, k, v, replaced) ==
    IF ps = <<>> THEN <<>>
    ELSE IF ps[1].key # k THEN <<ps[1]>> \o ParamsReplace(Tail(ps), k, v, replaced)
    ELSE IF replaced THEN ParamsReplace(Tail(ps), k, v, TRUE)
    ELSE <<Entry(k, v)>> \o ParamsReplace(Tail(ps), k, v, TRUE)
ParamsSet(ps, k, v) ==
    IF \E i \in 1 .. Len(ps) : ps[i].key = k THEN ParamsReplace(ps, k, v, FALSE)
    ELSE Append(ps, Entry(k, v))

\* the items of an array appended without the test for null and undefined
RECURSIVE AppendItems_WithNulls(_, _, _)
AppendItems_WithNulls(ps, k, items) ==
    IF items = <<>> THEN ps
    ELSE AppendItems_WithNulls(ParamsAppend(ps, k, String(items[1])), k, Tail(items))

\* for (const item of value) if (item !== undefined && item !== null) append
RECURSIVE AppendItems(_, _, _)
AppendItems(ps, k, items) ==
    IF items = <<>> THEN ps
    ELSE AppendItems(IF IsNullish(items[1]) THEN ps
                     ELSE ParamsAppend(ps, k, String(items[1])),
                     k, Tail(items))

\* for (const [key, value] of Object.entries(query)) ...
RECURSIVE AddQuery(_, _)
AddQuery(ps, entries) ==
    IF entries = <<>> THEN ps
    ELSE LET e == entries[1]
         IN AddQuery(IF IsNullish(e.value) THEN ps
                     ELSE IF e.value.tag = "array" THEN AppendItems(ps, e.key, e.value.items)
                     ELSE ParamsSet(ps, e.key, String(e.value)),
                     Tail(entries))

\* buildUrl(path, query), base being new URL(this.config.baseUrl)
buildUrl(base, path, query) ==
    Url(joinPath(base.pathname, path), AddQuery(<<>>, ObjectEntries(query)), <<>>)

\* the base addresses, paths and query maps addresses are built from
BaseUrls ==
    {Url(<<"/", "a">>, <<>>, <<>>),
     Url(<<"/", "a", "/">>, <<Entry("x", <<"1">>)>>, <<"f">>)}
Paths == {<<"/", "d">>, <<"d">>}
QueryKeys == {"page", "values", "1"}
QueryScalars == {JSUndefined, JSNull, JSNum(2), JSStr(<<"a">>)}
QueryItems == {JSStr(<<"a">>), JSNull}
QueryValues == QueryScalars \cup {JSArray(i) : i \in SeqsUpTo(QueryItems, MaxItems)}
Queries == Objects(QueryKeys, QueryValues, MaxQueryKeys)

\* the helper functions are at rest
(***************************************************************************)
(* Resource methods: DomainsAPI, EmailsAPI, ContactsAPI, CampaignsAPI, and *)
(* the assertions of utils/schema.ts.                                      *)
(***************************************************************************)
\* an object none of whose properties is set; a request or a parameter
\* object is this one with some properties set
EmptyObject ==
    [tag |-> "object", to |-> JSUndefined, from |-> JSUndefined, subject |-> JSUndefined,
     templateId |-> JSUndefined, scheduledAt |-> JSUndefined, name |-> JSUndefined,
     region |-> JSUndefined, email |-> JSUndefined, contactBookId |-> JSUndefined,
     startDate |-> JSUndefined, endDate |-> JSUndefined]

\* a Date, by the text toISOString gives for it; the Invalid Date has none
JSDate(text) == [tag |-> "date", val |-> 0, str |-> text]
InvalidDate == JSDate(<<>>)

\* the texts Date.parse accepts
IsoText == <<"2", "0", "2", "4">>
DateParses(text) == text = IsoText

\* o.f, for an o that is not null or undefined
Get(o, f) == IF o.tag = "object" THEN o[f] ELSE JSUndefined

\* reading a property of null or undefined throws a TypeError
ReadOf(o, fieldName) ==
    IF IsNullish(o) THEN PlainError("TypeError", 0, fieldName) ELSE NoError

\* Date.prototype.toISOString throws a RangeError on the Invalid Date
ToISOStringError(d, fieldName) ==
    IF d.tag = "date" /\ d.str = <<>> THEN PlainError("RangeError", 0, fieldName)
    ELSE NoError

\* value instanceof Date ? value.toISOString() : value
IsoOf(value) == IF value.tag = "date" THEN JSStr(value.str) ELSE value

\* the first error of a sequence of steps, each giving NoError when it returns
FirstError(steps) ==
    IF \A i \in 1 .. Len(steps) : steps[i] = NoError THEN NoError
    ELSE steps[CHOOSE i \in 1 .. Len(steps) :
                  /\ steps[i] # NoError
                  /\ \A j \in 1 .. i - 1 : steps[j] = NoError]

assertNonEmptyString(value, fieldName) ==
    IF value.tag # "string" \/ Len(Trim(value.str)) = 0
    THEN ValidationError(JSUndefined, 0, fieldName)
    ELSE NoError

assertArray(value, fieldName) ==
    IF value.tag # "array" THEN ValidationError(JSUndefined, 0, fieldName) ELSE NoError

assertIsoDate(value, fieldName) ==
    IF value.tag # "string" \/ ~DateParses(value.str)
    THEN ValidationError(JSUndefined, 0, fieldName)
    ELSE NoError

optionalIsoDate(value, fieldName) ==
    IF IsNullish(value) THEN NoError ELSE assertIsoDate(value, fieldName)

assertPositiveNumber(value, fieldName) ==
    IF value.tag # "num" \/ value.val <= 0
    THEN ValidationError(JSUndefined, 0, fieldName)
    ELSE NoError

\* what a resource method does: it throws, or it makes one call on the client
ClientCall(method, path, body, idempotent) ==
    [method |-> method, path |-> path, body |-> body, idempotent |-> idempotent]
NoClientCall == ClientCall("", "", JSUndefined, JSUndefined)
Throws(e) == [error |-> e, request |-> NoClientCall]
Calls(method, path, body, idempotent) ==
    [error |-> NoError, request |-> ClientCall(method, path, body, idempotent)]
AfterSteps(steps, o) == IF FirstError(steps) # NoError THEN Throws(FirstError(steps)) ELSE o

\* EmailsAPI.validateSendRequest
validateSendRequest(request, prefix) ==
    LET to == Get(request, "to")
    IN FirstError(<<
         ReadOf(request, prefix),
         IF to.tag = "array"
         THEN IF to.items = <<>> THEN ValidationError(JSUndefined, 0, "to")
              ELSE FirstError([i \in 1 .. Len(to.items) |->
                                  assertNonEmptyString(to.items[i], "to[]")])
         ELSE assertNonEmptyString(to, "to"),
         assertNonEmptyString(Get(request, "from"), "from"),
         IF ~Truthy(Get(request, "subject")) /\ ~Truthy(Get(request, "templateId"))
         THEN ValidationError(JSUndefined, 0, "subject")
         ELSE NoError,
         optionalIsoDate(Get(request, "scheduledAt"), "scheduledAt")>>)

\* EmailsAPI.batch
EmailsBatch(requests) ==
    AfterSteps(<<assertArray(requests, "requests"),
                 IF requests.tag = "array"
                 THEN FirstError([i \in 1 .. Len(requests.items) |->
                                     validateSendRequest(requests.items[i], "requests[]")])
                 ELSE NoError>>,
               Calls("POST", "/v1/emails/batch", requests, JSFalse))

\* the date filter of EmailsAPI.list
DateFilterError(value, fieldName) ==
    IF ~Truthy(value) THEN NoError
    ELSE IF value.tag = "date" THEN ToISOStringError(value, fieldName)
    ELSE assertIsoDate(value, fieldName)

\* the scheduledAt of a campaign payload
PayloadOf(request) ==
    IF request.tag = "object"
    THEN [request EXCEPT !.scheduledAt = IsoOf(request.scheduledAt)]
    ELSE request
PayloadError(request) ==
    FirstError(<<ToISOStringError(Get(request, "scheduledAt"), "request.scheduledAt"),
                 IF Truthy(Get(PayloadOf(request), "scheduledAt"))
                 THEN assertNonEmptyString(Get(PayloadOf(request), "scheduledAt"),
                                           "request.scheduledAt")
                 ELSE NoError>>)

\* params = {} : the default of a parameter that is undefined
Defaulted(params) == IF params.tag = "undefined" THEN EmptyObject ELSE params

\* the resource methods: a1, a2, a3 are the arguments, in order
ResourceOutcome(inv) ==
    LET a1 == inv.a1
        a2 == inv.a2
        a3 == inv.a3
        op == <<inv.api, inv.method>>
    IN CASE op = <<"domains", "list">> -> Calls("GET", "/v1/domains", JSUndefined, JSUndefined)
         [] op = <<"domains", "create">> ->
              AfterSteps(<<assertNonEmptyString(Get(a1, "name"), "name"),
                           assertNonEmptyString(Get(a1, "region"), "region")>>,
                         Calls("POST", "/v1/domains", a1, JSUndefined))
         [] op = <<"domains", "get">> ->
              AfterSteps(<<assertPositiveNumber(a1, "domainId")>>,
                         Calls("GET", "/v1/domains/:id", JSUndefined, JSUndefined))
         [] op = <<"domains", "verify">> ->
              AfterSteps(<<assertPositiveNumber(a1, "domainId")>>,
                         Calls("PUT", "/v1/domains/:id/verify", JSUndefined, JSUndefined))
         [] op = <<"domains", "delete">> ->
              AfterSteps(<<assertPositiveNumber(a1, "domainId")>>,
                         Calls("DELETE", "/v1/domains/:id", JSUndefined, JSUndefined))
         [] op = <<"emails", "send">> ->
              AfterSteps(<<validateSendRequest(a1, "request")>>,
                         Calls("POST", "/v1/emails", a1, JSFalse))
         [] op = <<"emails", "get">> ->
              AfterSteps(<<assertNonEmptyString(a1, "emailId")>>,
                         Calls("GET", "/v1/emails/:id", JSUndefined, JSUndefined))
         [] op = <<"emails", "list">> ->
              AfterSteps(<<ReadOf(Defaulted(a1), "params"),
                           DateFilterError(Get(Defaulted(a1), "startDate"), "startDate"),
                           DateFilterError(Get(Defaulted(a1), "endDate"), "endDate")>>,
                         Calls("GET", "/v1/emails", JSUndefined, JSUndefined))
         [] op = <<"emails", "schedule">> ->
              AfterSteps(<<assertNonEmptyString(a1, "emailId"),
                           ToISOStringError(a2, "scheduledAt"),
                           assertIsoDate(IsoOf(a2), "scheduledAt")>>,
                         Calls("PATCH", "/v1/emails/:id",
                               [EmptyObject EXCEPT !.scheduledAt = IsoOf(a2)], JSUndefined))
         [] op = <<"emails", "cancel">> ->
              AfterSteps(<<assertNonEmptyString(a1, "emailId")>>,
                         Calls("POST", "/v1/emails/:id/cancel", JSUndefined, JSUndefined))
         [] op = <<"emails", "batch">> -> EmailsBatch(a1)
         [] op = <<"contacts", "list">> ->
              AfterSteps(<<assertNonEmptyString(a1, "contactBookId"),
                           ReadOf(Defaulted(a2), "params")>>,
                         Calls("GET", "/v1/contactBooks/:id/contacts", JSUndefined,
                               JSUndefined))
         [] op = <<"contacts", "create">> ->
              AfterSteps(<<assertNonEmptyString(a1, "contactBookId"),
                           ReadOf(a2, "request"),
                           assertNonEmptyString(Get(a2, "email"), "request.email")>>,
                         Calls("POST", "/v1/contactBooks/:id/contacts", a2, JSUndefined))
         [] op = <<"contacts", "get">> ->
              AfterSteps(<<assertNonEmptyString(a1, "contactBookId"),
                           assertNonEmptyString(a2, "contactId")>>,
                         Calls("GET", "/v1/contactBooks/:id/contacts/:id", JSUndefined,
                               JSUndefined))
         [] op = <<"contacts", "upsert">> ->
              AfterSteps(<<assertNonEmptyString(a1, "contactBookId"),
                           assertNonEmptyString(a2, "contactId"),
                           ReadOf(a3, "request"),
                           assertNonEmptyString(Get(a3, "email"), "request.email")>>,
                         Calls("PUT", "/v1/contactBooks/:id/contacts/:id", a3, JSUndefined))
         [] op = <<"contacts", "update">> ->
              AfterSteps(<<assertNonEmptyString(a1, "contactBookId"),
                           assertNonEmptyString(a2, "contactId")>>,
                         Calls("PATCH", "/v1/contactBooks/:id/contacts/:id", a3,
                               JSUndefined))
         [] op = <<"contacts", "delete">> ->
              AfterSteps(<<assertNonEmptyString(a1, "contactBookId"),
                           assertNonEmptyString(a2, "contactId")>>,
                         Calls("DELETE", "/v1/contactBooks/:id/contacts/:id", JSUndefined,
                               JSUndefined))
         [] op = <<"campaigns", "create">> ->
              AfterSteps(<<ReadOf(a1, "request"),
                           assertNonEmptyString(Get(a1, "name"), "request.name"),
                           assertNonEmptyString(Get(a1, "from"), "request.from"),
                           assertNonEmptyString(Get(a1, "subject"), "request.subject"),
                           assertNonEmptyString(Get(a1, "contactBookId"),
                                                "request.contactBookId"),
                           PayloadError(a1)>>,
                         Calls("POST", "/v1/campaigns", PayloadOf(a1), JSUndefined))
         [] op = <<"campaigns", "get">> ->
              AfterSteps(<<assertNonEmptyString(a1, "campaignId")>>,
                         Calls("GET", "/v1/campaigns/:id", JSUndefined, JSUndefined))
         [] op = <<"campaigns", "schedule">> ->
              AfterSteps(<<assertNonEmptyString(a1, "campaignId"),
                           ReadOf(a2, "request"),
                           PayloadError(a2)>>,
                         Calls("POST", "/v1/campaigns/:id/schedule", PayloadOf(a2),
                               JSUndefined))
         [] op = <<"campaigns", "pause">> ->
              AfterSteps(<<assertNonEmptyString(a1, "campaignId")>>,
                         Calls("POST", "/v1/campaigns/:id/pause", JSUndefined, JSUndefined))
         [] op = <<"campaigns", "resume">> ->
              AfterSteps(<<assertNonEmptyString(a1, "campaignId")>>,
                         Calls("POST", "/v1/campaigns/:id/resume", JSUndefined, JSUndefined))

\* the arguments the resource methods are invoked with
Invoke(api, method, a1, a2, a3) ==
    [api |-> api, method |-> method, a1 |-> a1, a2 |-> a2, a3 |-> a3]
NoInvocation == Invoke("", "", JSUndefined, JSUndefined, JSUndefined)
GoodText == JSStr(<<"k">>)
IdValues == {JSUndefined, JSStr(<<" ">>), GoodText}
DomainIdValues == {JSUndefined, JSNum(0), JSNum(1), JSNaN}
DateValues == {JSUndefined, GoodText, JSStr(IsoText), JSDate(IsoText), InvalidDate}
ToValues ==
    {JSUndefined, GoodText, JSArray(<<>>), JSArray(<<GoodText>>),
     JSArray(<<GoodText, JSStr(<<" ">>)>>)}
SendRequests ==
    {JSUndefined}
    \cup {[EmptyObject EXCEPT !.to = t, !.from = f, !.subject = s, !.templateId = tpl,
                              !.scheduledAt = d] :
            t \in ToValues, f \in {JSUndefined, GoodText}, s \in {JSUndefined, GoodText},
            tpl \in {JSUndefined, GoodText},
            d \in {JSUndefined, GoodText, JSStr(IsoText)}}
BatchItems ==
    {[EmptyObject EXCEPT !.to = GoodText, !.from = GoodText, !.templateId = GoodText],
     [EmptyObject EXCEPT !.to = JSArray(<<GoodText>>), !.from = GoodText,
                         !.subject = GoodText],
     [EmptyObject EXCEPT !.to = GoodText, !.from = GoodText]}
BatchValues == {JSUndefined} \cup {JSArray(items) : items \in SeqsUpTo(BatchItems, MaxBatch)}
DomainRequests ==
    {JSUndefined}
    \cup {[EmptyObject EXCEPT !.name = n, !.region = r] :
            n \in IdValues, r \in {JSUndefined, GoodText}}
ContactRequests == {JSUndefined} \cup {[EmptyObject EXCEPT !.email = e] : e \in IdValues}
CampaignRequests ==
    {JSUndefined}
    \cup {[EmptyObject EXCEPT !.name = n, !.from = GoodText, !.subject = GoodText,
                              !.contactBookId = b, !.scheduledAt = d] :
            n \in {JSUndefined, GoodText}, b \in {JSUndefined, GoodText}, d \in DateValues}
ScheduleRequests == {JSUndefined} \cup {[EmptyObject EXCEPT !.scheduledAt = d] : d \in DateValues}
ListParams ==
    {JSUndefined, JSNull}
    \cup {[EmptyObject EXCEPT !.startDate = a, !.endDate = b] :
            a \in DateValues, b \in {JSUndefined, InvalidDate}}
Invocations ==
    {Invoke("domains", "list", JSUndefined, JSUndefined, JSUndefined)}
    \cup {Invoke("domains", "create", r, JSUndefined, JSUndefined) : r \in DomainRequests}
    \cup {Invoke("domains", m, d, JSUndefined, JSUndefined) :
            m \in {"get", "verify", "delete"}, d \in DomainIdValues}
    \cup {Invoke("emails", "send", r, JSUndefined, JSUndefined) : r \in SendRequests}
    \cup {Invoke("emails", m, i, JSUndefined, JSUndefined) :
            m \in {"get", "cancel"}, i \in IdValues}
    \cup {Invoke("emails", "list", p, JSUndefined, JSUndefined) : p \in ListParams}
    \cup {Invoke("emails", "schedule", i, d, JSUndefined) : i \in IdValues, d \in DateValues}
    \cup {Invoke("emails", "batch", r, JSUndefined, JSUndefined) : r \in BatchValues}
    \cup {Invoke("contacts", "list", i, p, JSUndefined) :
            i \in IdValues, p \in {JSUndefined, JSNull, EmptyObject}}
    \cup {Invoke("contacts", "create", i, r, JSUndefined) :
            i \in IdValues, r \in ContactRequests}
    \cup {Invoke("contacts", m, i, j, JSUndefined) :
            m \in {"get", "delete"}, i \in IdValues, j \in IdValues}
    \cup {Invoke("contacts", "upsert", i, j, r) :
            i \in IdValues, j \in IdValues, r \in ContactRequests}
    \cup {Invoke("contacts", "update", i, j, r) :
            i \in IdValues, j \in IdValues, r \in {JSUndefined, EmptyObject}}
    \cup {Invoke("campaigns", "create", r, JSUndefined, JSUndefined) : r \in CampaignRequests}
    \cup {Invoke("campaigns", m, i, JSUndefined, JSUndefined) :
            m \in {"get", "pause", "resume"}, i \in IdValues}
    \cup {Invoke("campaigns", "schedule", i, r, JSUndefined) :
            i \in IdValues, r \in ScheduleRequests}

NoResource ==
    /\ invocation = NoInvocation
    /\ dispatched = <<>>

resourceVars == <<invocation, dispatched>>
helperVars == <<headersArg, headers, records, urlArg, url, resourceVars, calls>>
NoHelper ==
    /\ headersArg = NoHeadersArg
    /\ headers = EmptyHeaders
    /\ records = <<>>
    /\ urlArg = NoUrlArg
    /\ url = NoUrl
    /\ NoResource
    /\ calls = <<>>

NoCall == [method |-> "GET", idempotent |-> JSUndefined, body |-> JSUndefined]
Pending == [kind |-> "pending", value |-> ValUndefined, error |-> NoError]
Resolved(v) == [kind |-> "resolved", value |-> v, error |-> NoError]
Rejected(e) == [kind |-> "rejected", value |-> ValUndefined, error |-> e]

IdleCall ==
    /\ call = NoCall
    /\ pc = "idle"
    /\ attempt = 0
    /\ maxRetries = 0
    /\ lastError = NoError
    /\ idx = 0
    /\ thrown = NoError
    /\ dispatchError = NoError
    /\ response = NoResponse
    /\ fetched = 0
    /\ fetchCalls = 0
    /\ delays = <<>>
    /\ hist = <<>>
    /\ result = Pending
    /\ NoDispatch
    /\ NoAbort
    /\ NoHelper

(***************************************************************************)
(* Construction: new HttpClient(config).                                   *)
(***************************************************************************)
\* the configurations the constructor is tried on
CtorConfigs == {c \in RawConfigs : c.nRequest = 0 /\ c.nResponse = 0 /\ c.nError = 0}

\* the configurations of the clients whose calls are explored: the retry loop
\* runs with at most one interceptor a kind
ClientConfigs ==
    {c \in [apiKey : {JSStr(<<"k">>)}, baseUrl : {JSUndefined}, fetch : {JSFunction},
            maxRetries : MaxRetriesValues, retryDelayMs : RetryDelayValues,
            timeout : {JSUndefined}, nRequest : 0 .. 1, nResponse : 0 .. 1,
            nError : 0 .. 1] :
        /\ c.maxRetries.tag = "num"
        /\ c.retryDelayMs # JSNum(-1)
        /\ c.nRequest = c.nResponse
        /\ c.nResponse = c.nError
        /\ validateConfig(c) = NoError}

\* constructor(config): this.config = resolveConfig(config)
Constructor ==
    /\ client = "new"
    /\ LET r == resolveConfig(rawConfig, ambientFetch)
       IN /\ ctorError' = r.error
          /\ config' = r.config
          /\ client' = IF r.error = NoError THEN "ready" ELSE "failed"
    /\ UNCHANGED <<rawConfig, ambientFetch>>
    /\ UNCHANGED callVars
    /\ UNCHANGED helperVars

(***************************************************************************)
(* One call: request(method, path, options) and dispatch.                  *)
(***************************************************************************)
\* what the transport answers
ErrorStatuses == {401, 403, 404, 429, 500}
TransportResponses ==
    {Response(200, JSNull, TRUE, FALSE, "{\"ok\":true}"),
     Response(200, JSNull, TRUE, FALSE, ""),
     Response(204, JSNull, FALSE, FALSE, "")}
    \cup {Response(st, JSNull, TRUE, FALSE, "{\"ok\":false}") : st \in ErrorStatuses}
    \cup {Response(429, JSStr(h), TRUE, FALSE, "{\"ok\":false}") : h \in {<<"2">>, <<"0">>}}

\* what a response interceptor may put in place of the transport's response
SubstituteResponses ==
    {Response(200, JSNull, TRUE, FALSE, "{\"ok\":false}"),
     Response(500, JSNull, TRUE, FALSE, "{\"ok\":false}")}

\* what the transport throws: a network failure, or an abort (timeout, cancellation)
TransportThrowKinds == {"TypeError", "AbortError"}

\* what an interceptor throws
InterceptorThrowKinds == {"Error", "ValidationError"}
InterceptorError(kind, at, src) ==
    IF kind = "ValidationError" THEN ValidationError(JSUndefined, at, src)
    ELSE PlainError(kind, at, src)

\* the bodies given to a call: none, or one JSON.stringify throws on
BodyValues == {JSUndefined, JSCircular}

\* what a request interceptor returns when it returns: nothing, or the context
\* it received with one more header set
RequestInterceptorReturns(ctx, i) == {NoContext, Context(Append(ctx.headers, i))}

\* the interceptor's result is dropped and the context it received is kept
NextContext_Dropped(next, returned) == next

\* next = (await interceptor({ ...next, init: { ...next.init } })) ?? next
NextContext(next, returned) == IF returned.nullish THEN next ELSE returned

\* the request context of the attempt survives the attempt
DispatchEnds_KeepsContext ==
    /\ requestContext' = requestContext
    /\ reqRuns' = <<>>
    /\ sent' = NoContext
    /\ respRuns' = <<>>

\* dispatch has rejected: the locals of its try end
DispatchEnds ==
    /\ requestContext' = InitialContext
    /\ reqRuns' = <<>>
    /\ sent' = NoContext
    /\ respRuns' = <<>>

\* the interceptor's result is dropped and the response it received is kept
FinalResponse_Ignored(current, returned) == current

\* runResponseInterceptors: a returned Response replaces nextContext.response,
\* anything else (nothing, a context without response) keeps it
FinalResponse(current, returned) == IF returned = NoResponse THEN current ELSE returned

\* get / post / put / patch / delete: request(method, path, options) is entered
StartCall(method, options) ==
    /\ client = "ready"
    /\ pc = "idle"
    /\ call' = [method |-> method, idempotent |-> options.idempotent,
                body |-> options.body]
    /\ maxRetries' = budgetOf(options, config)
    /\ attempt' = 0
    /\ lastError' = NoError
    /\ pc' = "loop"
    /\ idx' = 0
    /\ thrown' = NoError
    /\ dispatchError' = NoError
    /\ response' = NoResponse
    /\ fetched' = 0
    /\ fetchCalls' = 0
    /\ delays' = <<>>
    /\ hist' = <<>>
    /\ result' = Pending
    /\ UNCHANGED dispatchVars
    /\ UNCHANGED clientVars
    /\ controllers' = <<>>
    /\ cancel' = Cancel(options.timeout, options.signal # "none", options.signal = "aborted")
    /\ UNCHANGED helperVars

\* request has returned or thrown to its caller: maxRetries, lastError and
\* attempt are locals of the invocation and end with it; the client is as it
\* was before the call, and may be called again
RequestReturns ==
    /\ pc = "done"
    /\ call' = NoCall
    /\ pc' = "idle"
    /\ attempt' = 0
    /\ maxRetries' = 0
    /\ lastError' = NoError
    /\ idx' = 0
    /\ thrown' = NoError
    /\ dispatchError' = NoError
    /\ response' = NoResponse
    /\ fetched' = 0
    /\ fetchCalls' = 0
    /\ delays' = <<>>
    /\ hist' = <<>>
    /\ result' = Pending
    /\ DispatchEnds
    /\ errRuns' = <<>>
    /\ UNCHANGED clientVars
    /\ controllers' = <<>>
    /\ cancel' = NoCancel
    /\ UNCHANGED helperVars

\* the loop test of request; the loop is left, or dispatch is entered and runs
\* up to its try: buildUrl, buildHeaders, the serialization of the body (where
\* JSON.stringify throws past dispatch's catch clause), controller and timer
BeginAttempt ==
    /\ pc = "loop"
    /\ IF attempt <= maxRetries
       THEN /\ idx' = 0
            /\ response' = NoResponse
            /\ fetched' = 0
            /\ result' = result
            /\ IF call.body = JSCircular
               THEN /\ thrown' = PlainError("TypeError", attempt, "serialize")
                    /\ dispatchError' = PlainError("TypeError", attempt, "serialize")
                    /\ pc' = "caught"
                    /\ UNCHANGED controllers
               ELSE /\ thrown' = NoError
                    /\ dispatchError' = NoError
                    /\ pc' = "requestInterceptors"
                    /\ controllers' = Append(controllers, NewController(cancel, config))
       ELSE /\ pc' = "done"
            /\ result' = Rejected(IF lastError # NoError THEN lastError
                                  ELSE MailrifyError(JSUndefined, attempt, "request"))
            /\ UNCHANGED <<idx, thrown, dispatchError, response, fetched, controllers>>
    /\ UNCHANGED <<call, attempt, maxRetries, lastError, fetchCalls, delays, hist>>
    /\ UNCHANGED dispatchVars
    /\ UNCHANGED clientVars
    /\ UNCHANGED cancel
    /\ UNCHANGED helperVars

\* a throwing request interceptor ends the attempt at once, the error
\* interceptors never called
RequestInterceptor_SkipsErrorInterceptors ==
    /\ pc = "requestInterceptors"
    /\ idx < config.nRequest
    /\ \/ \E returned \in RequestInterceptorReturns(requestContext, idx + 1) :
            /\ reqRuns' = Append(reqRuns, [who |-> idx + 1, got |-> requestContext,
                                           gave |-> returned])
            /\ requestContext' = NextContext(requestContext, returned)
            /\ idx' = idx + 1
            /\ UNCHANGED <<pc, thrown, dispatchError, controllers, sent, respRuns>>
       \/ \E k \in InterceptorThrowKinds :
            /\ thrown' = InterceptorError(k, attempt, "requestInterceptor")
            /\ dispatchError' = InterceptorError(k, attempt, "requestInterceptor")
            /\ pc' = "caught"
            /\ controllers' = ClearTimeout(controllers)
            /\ idx' = 0
            /\ DispatchEnds
    /\ UNCHANGED <<call, attempt, maxRetries, lastError, response,
                   fetched, fetchCalls, delays, hist, result, errRuns>>
    /\ UNCHANGED clientVars
    /\ UNCHANGED cancel
    /\ UNCHANGED helperVars

\* runRequestInterceptors: the next request interceptor returns or throws
RequestInterceptor ==
    /\ pc = "requestInterceptors"
    /\ idx < config.nRequest
    /\ \/ \E returned \in RequestInterceptorReturns(requestContext, idx + 1) :
            /\ reqRuns' = Append(reqRuns, [who |-> idx + 1, got |-> requestContext,
                                           gave |-> returned])
            /\ requestContext' = NextContext(requestContext, returned)
            /\ idx' = idx + 1
            /\ UNCHANGED <<pc, thrown, controllers>>
       \/ \E k \in InterceptorThrowKinds :
            /\ thrown' = InterceptorError(k, attempt, "requestInterceptor")
            /\ reqRuns' = Append(reqRuns, [who |-> idx + 1, got |-> requestContext,
                                           gave |-> NoContext])
            /\ pc' = "errorInterceptors"
            /\ controllers' = ClearTimeout(controllers)
            /\ idx' = 0
            /\ UNCHANGED requestContext
    /\ UNCHANGED <<call, attempt, maxRetries, lastError, dispatchError, response,
                   fetched, fetchCalls, delays, hist, result, sent, respRuns, errRuns>>
    /\ UNCHANGED clientVars
    /\ UNCHANGED cancel
    /\ UNCHANGED helperVars

\* the transport invoked before the request interceptors have run
InvokeTransport_First ==
    /\ pc = "requestInterceptors"
    /\ idx = 0
    /\ fetched' = fetched + 1
    /\ fetchCalls' = fetchCalls + 1
    /\ sent' = requestContext
    /\ pc' = "transport"
    /\ UNCHANGED <<call, attempt, maxRetries, lastError, idx, thrown, dispatchError,
                   response, delays, hist, result, requestContext, reqRuns,
                   respRuns, errRuns>>
    /\ UNCHANGED clientVars
    /\ controllers' = HandOver(controllers)
    /\ UNCHANGED cancel
    /\ UNCHANGED helperVars

\* the transport invoked a second time in the same attempt
InvokeTransport_Twice ==
    /\ pc = "requestInterceptors"
    /\ idx = config.nRequest
    /\ fetched' = fetched + 2
    /\ fetchCalls' = fetchCalls + 2
    /\ sent' = requestContext
    /\ pc' = "transport"
    /\ UNCHANGED <<call, attempt, maxRetries, lastError, idx, thrown, dispatchError,
                   response, delays, hist, result, requestContext, reqRuns,
                   respRuns, errRuns>>
    /\ UNCHANGED clientVars
    /\ controllers' = HandOver(controllers)
    /\ UNCHANGED cancel
    /\ UNCHANGED helperVars

\* this.config.fetch(requestContext.url, requestContext.init) is invoked
InvokeTransport ==
    /\ pc = "requestInterceptors"
    /\ idx = config.nRequest
    /\ fetched' = fetched + 1
    /\ fetchCalls' = fetchCalls + 1
    /\ sent' = requestContext
    /\ pc' = "transport"
    /\ UNCHANGED <<call, attempt, maxRetries, lastError, idx, thrown, dispatchError,
                   response, delays, hist, result, requestContext, reqRuns,
                   respRuns, errRuns>>
    /\ UNCHANGED clientVars
    /\ controllers' = HandOver(controllers)
    /\ UNCHANGED cancel
    /\ UNCHANGED helperVars

\* the transport returns a response
TransportReturns ==
    /\ pc = "transport"
    /\ \E r \in TransportResponses : response' = r
    /\ pc' = "responseInterceptors"
    /\ idx' = 0
    /\ UNCHANGED <<call, attempt, maxRetries, lastError, thrown, dispatchError,
                   fetched, fetchCalls, delays, hist, result>>
    /\ UNCHANGED dispatchVars
    /\ UNCHANGED clientVars
    /\ controllers' = ClearTimeout(controllers)
    /\ UNCHANGED cancel
    /\ UNCHANGED helperVars

\* the transport throws
TransportThrows ==
    /\ pc = "transport"
    /\ \E k \in TransportThrowKinds : thrown' = PlainError(k, attempt, "transport")
    /\ pc' = "errorInterceptors"
    /\ idx' = 0
    /\ UNCHANGED <<call, attempt, maxRetries, lastError, dispatchError, response,
                   fetched, fetchCalls, delays, hist, result>>
    /\ UNCHANGED dispatchVars
    /\ UNCHANGED clientVars
    /\ controllers' = ClearTimeout(controllers)
    /\ UNCHANGED cancel
    /\ UNCHANGED helperVars

\* runResponseInterceptors: the next response interceptor returns nothing or
\* another response, or throws
ResponseInterceptor ==
    /\ pc = "responseInterceptors"
    /\ idx < config.nResponse
    /\ \/ \E returned \in {NoResponse} \cup SubstituteResponses :
            /\ respRuns' = Append(respRuns, [got |-> response, gave |-> returned])
            /\ response' = FinalResponse(response, returned)
            /\ idx' = idx + 1
            /\ UNCHANGED <<pc, thrown, controllers>>
       \/ \E k \in InterceptorThrowKinds :
            /\ thrown' = InterceptorError(k, attempt, "responseInterceptor")
            /\ respRuns' = Append(respRuns, [got |-> response, gave |-> NoResponse])
            /\ pc' = "errorInterceptors"
            /\ controllers' = ClearTimeout(controllers)
            /\ idx' = 0
            /\ UNCHANGED response
    /\ UNCHANGED <<call, attempt, maxRetries, lastError, dispatchError,
                   fetched, fetchCalls, delays, hist, result>>
    /\ UNCHANGED <<requestContext, reqRuns, sent, errRuns>>
    /\ UNCHANGED clientVars
    /\ UNCHANGED cancel
    /\ UNCHANGED helperVars

\* the final response is classified: a non-2xx response raises buildError's
\* error, a 2xx response is parsed and the call resolves
Classify ==
    /\ pc = "responseInterceptors"
    /\ idx = config.nResponse
    /\ LET parsed == parseResponse(response)
       IN IF ~Ok(response)
          THEN /\ thrown' = buildError(response, attempt)
               /\ pc' = "errorInterceptors"
               /\ controllers' = ClearTimeout(controllers)
               /\ idx' = 0
               /\ UNCHANGED <<result, hist>>
               /\ UNCHANGED dispatchVars
          ELSE IF parsed.threw
          THEN /\ thrown' = PlainError("SyntaxError", attempt, "parse")
               /\ pc' = "errorInterceptors"
               /\ controllers' = ClearTimeout(controllers)
               /\ idx' = 0
               /\ UNCHANGED <<result, hist>>
               /\ UNCHANGED dispatchVars
          ELSE /\ result' = Resolved(parsed.value)
               /\ hist' = Append(hist, [err |-> NoError, raisedIn |-> "none",
                                        fetched |-> fetched])
               /\ pc' = "done"
               /\ UNCHANGED <<thrown, idx, controllers>>
               /\ UNCHANGED dispatchVars
    /\ UNCHANGED <<call, attempt, maxRetries, lastError, dispatchError, response,
                   fetched, fetchCalls, delays>>
    /\ UNCHANGED clientVars
    /\ UNCHANGED cancel
    /\ UNCHANGED helperVars

\* runErrorInterceptors: the next error interceptor is handed the caught error;
\* it returns, or throws and dispatch rejects with what it threw
ErrorInterceptor ==
    /\ pc = "errorInterceptors"
    /\ idx < config.nError
    /\ errRuns' = Append(errRuns, [who |-> idx + 1, error |-> thrown])
    /\ \/ /\ idx' = idx + 1
          /\ UNCHANGED <<pc, dispatchError>>
          /\ UNCHANGED <<requestContext, reqRuns, sent, respRuns>>
       \/ \E k \in InterceptorThrowKinds :
            /\ dispatchError' = InterceptorError(k, attempt, "errorInterceptor")
            /\ pc' = "caught"
            /\ idx' = idx
            /\ DispatchEnds
    /\ UNCHANGED <<call, attempt, maxRetries, lastError, thrown, response,
                   fetched, fetchCalls, delays, hist, result>>
    /\ UNCHANGED clientVars
    /\ UNCHANGED abortVars
    /\ UNCHANGED helperVars

\* a failed attempt whose dispatch resolves with nothing
DispatchRejects_Swallowed ==
    /\ pc = "errorInterceptors"
    /\ idx = config.nError
    /\ result' = Resolved(ValUndefined)
    /\ pc' = "done"
    /\ UNCHANGED <<call, attempt, maxRetries, lastError, idx, thrown, response,
                   fetched, fetchCalls, delays, hist, dispatchError>>
    /\ UNCHANGED dispatchVars
    /\ UNCHANGED clientVars
    /\ UNCHANGED abortVars
    /\ UNCHANGED helperVars

\* throw error: dispatch rejects with the error it caught
DispatchRejects ==
    /\ pc = "errorInterceptors"
    /\ idx = config.nError
    /\ dispatchError' = thrown
    /\ pc' = "caught"
    /\ DispatchEnds
    /\ UNCHANGED <<call, attempt, maxRetries, lastError, idx, thrown, response,
                   fetched, fetchCalls, delays, hist, result, errRuns>>
    /\ UNCHANGED clientVars
    /\ UNCHANGED abortVars
    /\ UNCHANGED helperVars

\* the next attempt started without awaiting the backoff delay
CatchError_NoWait ==
    /\ pc = "caught"
    /\ lastError' = dispatchError
    /\ hist' = Append(hist, [err |-> dispatchError, raisedIn |-> thrown.src,
                             fetched |-> fetched])
    /\ IF ~shouldRetry(call.method, dispatchError, call, attempt, maxRetries)
       THEN /\ result' = Rejected(dispatchError)
            /\ pc' = "done"
            /\ UNCHANGED <<attempt, delays>>
       ELSE /\ delays' = Append(delays, getRetryDelay(dispatchError, attempt, config))
            /\ result' = result
            /\ pc' = "loop"
            /\ attempt' = attempt + 1
    /\ UNCHANGED <<call, maxRetries, idx, thrown, dispatchError, response,
                   fetched, fetchCalls>>
    /\ UNCHANGED <<requestContext, reqRuns, sent, respRuns>>
    /\ errRuns' = <<>>
    /\ UNCHANGED clientVars
    /\ UNCHANGED abortVars
    /\ UNCHANGED helperVars

\* the catch clause of request: rethrow, or start the backoff delay
CatchError ==
    /\ pc = "caught"
    /\ lastError' = dispatchError
    /\ hist' = Append(hist, [err |-> dispatchError, raisedIn |-> thrown.src,
                             fetched |-> fetched])
    /\ IF ~shouldRetry(call.method, dispatchError, call, attempt, maxRetries)
       THEN /\ result' = Rejected(dispatchError)
            /\ pc' = "done"
            /\ UNCHANGED <<attempt, delays>>
       ELSE LET d == getRetryDelay(dispatchError, attempt, config)
            IN /\ delays' = Append(delays, d)
               /\ result' = result
               /\ IF d <= 0
                  THEN /\ pc' = "loop"
                       /\ attempt' = attempt + 1
                  ELSE /\ pc' = "delay"
                       /\ attempt' = attempt
    /\ UNCHANGED <<call, maxRetries, idx, thrown, dispatchError, response,
                   fetched, fetchCalls>>
    /\ UNCHANGED <<requestContext, reqRuns, sent, respRuns>>
    /\ errRuns' = <<>>
    /\ UNCHANGED clientVars
    /\ UNCHANGED abortVars
    /\ UNCHANGED helperVars

\* the backoff doubled in the configuration once a delay has been awaited
DelayElapses_WritesConfig ==
    /\ pc = "delay"
    /\ pc' = "loop"
    /\ attempt' = attempt + 1
    /\ config' = [config EXCEPT !.retryDelayMs = JSNum(2 * config.retryDelayMs.val)]
    /\ UNCHANGED <<rawConfig, ambientFetch, client, ctorError>>
    /\ UNCHANGED <<call, maxRetries, lastError, idx, thrown, dispatchError, response,
                   fetched, fetchCalls, delays, hist, result>>
    /\ UNCHANGED dispatchVars
    /\ UNCHANGED abortVars
    /\ UNCHANGED helperVars

\* the backoff timer of delay fires
DelayElapses ==
    /\ pc = "delay"
    /\ pc' = "loop"
    /\ attempt' = attempt + 1
    /\ UNCHANGED <<call, maxRetries, lastError, idx, thrown, dispatchError, response,
                   fetched, fetchCalls, delays, hist, result>>
    /\ UNCHANGED dispatchVars
    /\ UNCHANGED clientVars
    /\ UNCHANGED abortVars
    /\ UNCHANGED helperVars

(***************************************************************************)
(* Specifications.                                                         *)
(***************************************************************************)
\* a constructed client, about to issue calls
Init ==
    /\ rawConfig \in ClientConfigs
    /\ ambientFetch = JSFunction
    /\ client = "ready"
    /\ ctorError = NoError
    /\ config = resolveConfig(rawConfig, ambientFetch).config
    /\ IdleCall

Next ==
    \/ \E m \in Methods, i \in IdempotentValues, b \in BodyValues :
            StartCall(m, Options(i, b, JSUndefined, "none"))
    \/ BeginAttempt
    \/ RequestInterceptor
    \/ InvokeTransport
    \/ TransportReturns
    \/ TransportThrows
    \/ ResponseInterceptor
    \/ Classify
    \/ ErrorInterceptor
    \/ DispatchRejects
    \/ CatchError
    \/ DelayElapses
    \/ RequestReturns

Spec == Init /\ [][Next]_vars

\* the step a call in progress is waiting for: an awaited promise settles
\* (an interceptor or the transport returns or throws, the timer of delay
\* fires) and the code after the await runs
Progress ==
    \/ BeginAttempt
    \/ RequestInterceptor
    \/ InvokeTransport
    \/ TransportReturns
    \/ TransportThrows
    \/ ResponseInterceptor
    \/ Classify
    \/ ErrorInterceptor
    \/ DispatchRejects
    \/ CatchError
    \/ DelayElapses

\* GET and POST calls on a client, every awaited promise settling
LiveNext ==
    \/ \E m \in {"GET", "POST"} :
            StartCall(m, Options(JSUndefined, JSUndefined, JSUndefined, "none"))
    \/ Progress
    \/ RequestReturns

LiveSpec == Init /\ [][LiveNext]_vars /\ WF_vars(Progress)

\* one dispatch under every interceptor set of up to MaxInterceptors
\* interceptors a kind: a client without retries issues calls
PipelineConfigs ==
    {[c EXCEPT !.nRequest = a, !.nResponse = b, !.nError = e] :
        c \in {d \in ClientConfigs : d.maxRetries = JSNum(0) /\ d.nRequest = 0
                                      /\ d.retryDelayMs = JSUndefined},
        a \in 0 .. MaxInterceptors, b \in 0 .. MaxInterceptors,
        e \in 0 .. MaxInterceptors}

DispatchInit ==
    /\ rawConfig \in PipelineConfigs
    /\ ambientFetch = JSFunction
    /\ client = "ready"
    /\ ctorError = NoError
    /\ config = resolveConfig(rawConfig, ambientFetch).config
    /\ IdleCall

DispatchNext ==
    \/ \E b \in BodyValues : StartCall("POST", Options(JSUndefined, b, JSUndefined, "none"))
    \/ BeginAttempt
    \/ RequestInterceptor
    \/ InvokeTransport
    \/ TransportReturns
    \/ TransportThrows
    \/ ResponseInterceptor
    \/ Classify
    \/ ErrorInterceptor
    \/ DispatchRejects
    \/ CatchError
    \/ RequestReturns

DispatchSpec == DispatchInit /\ [][DispatchNext]_vars

\* buildHeaders and logDebug applied to every header input: the header set of
\* a request is built, changed by a request interceptor and logged; the
\* headers of a response are logged
BuildHeadersStep ==
    /\ pc = "buildHeaders"
    /\ headers' = buildHeaders(config, headersArg.static, headersArg.userAgent,
                               headersArg.inBrowser, headersArg.overrides)
    /\ pc' = "editHeaders"
    /\ UNCHANGED <<call, attempt, maxRetries, lastError, idx, thrown, dispatchError,
                   response, fetched, fetchCalls, delays, hist, result>>
    /\ UNCHANGED dispatchVars
    /\ UNCHANGED <<headersArg, records, urlArg, url>>
    /\ UNCHANGED resourceVars
    /\ UNCHANGED calls
    /\ UNCHANGED clientVars
    /\ UNCHANGED abortVars

InterceptorEditsHeaders ==
    /\ pc = "editHeaders"
    /\ headers' = ApplyEdit(headers, headersArg.edit)
    /\ pc' = "logRequest"
    /\ UNCHANGED <<call, attempt, maxRetries, lastError, idx, thrown, dispatchError,
                   response, fetched, fetchCalls, delays, hist, result>>
    /\ UNCHANGED dispatchVars
    /\ UNCHANGED <<headersArg, records, urlArg, url>>
    /\ UNCHANGED resourceVars
    /\ UNCHANGED calls
    /\ UNCHANGED clientVars
    /\ UNCHANGED abortVars

\* if (this.config.debug) this.logDebug('request', requestContext, attempt)
LogDebugRequest ==
    /\ pc = "logRequest"
    /\ records' = Append(records, logDebug("request", headers))
    /\ pc' = "logged"
    /\ UNCHANGED <<call, attempt, maxRetries, lastError, idx, thrown, dispatchError,
                   response, fetched, fetchCalls, delays, hist, result>>
    /\ UNCHANGED dispatchVars
    /\ UNCHANGED <<headersArg, headers, urlArg, url>>
    /\ UNCHANGED resourceVars
    /\ UNCHANGED calls
    /\ UNCHANGED clientVars
    /\ UNCHANGED abortVars

\* if (this.config.debug) this.logDebug('response', { ...requestContext,
\* response: finalResponse }, attempt)
LogDebugResponse ==
    /\ pc = "logResponse"
    /\ records' = Append(records, logDebug("response", headers))
    /\ pc' = "logged"
    /\ UNCHANGED <<call, attempt, maxRetries, lastError, idx, thrown, dispatchError,
                   response, fetched, fetchCalls, delays, hist, result>>
    /\ UNCHANGED dispatchVars
    /\ UNCHANGED <<headersArg, headers, urlArg, url>>
    /\ UNCHANGED resourceVars
    /\ UNCHANGED calls
    /\ UNCHANGED clientVars
    /\ UNCHANGED abortVars

HeadersInit ==
    /\ rawConfig \in {c \in ClientConfigs : c.maxRetries = JSNum(0) /\ c.nRequest = 0
                                             /\ c.retryDelayMs = JSUndefined}
    /\ ambientFetch = JSFunction
    /\ client = "ready"
    /\ ctorError = NoError
    /\ config = resolveConfig(rawConfig, ambientFetch).config
    /\ call = NoCall
    /\ attempt = 0
    /\ maxRetries = 0
    /\ lastError = NoError
    /\ idx = 0
    /\ thrown = NoError
    /\ dispatchError = NoError
    /\ response = NoResponse
    /\ fetched = 0
    /\ fetchCalls = 0
    /\ delays = <<>>
    /\ hist = <<>>
    /\ result = Pending
    /\ NoDispatch
    /\ NoAbort
    /\ records = <<>>
    /\ urlArg = NoUrlArg
    /\ url = NoUrl
    /\ NoResource
    /\ calls = <<>>
    /\ \/ /\ pc = "buildHeaders"
          /\ headersArg \in [static : HeaderObjects, overrides : OverrideValues,
                             userAgent : UserAgentValues, inBrowser : BOOLEAN,
                             edit : HeaderEdits]
          /\ headers = EmptyHeaders
       \/ /\ pc = "logResponse"
          /\ headersArg = NoHeadersArg
          /\ headers \in {SetEntries(EmptyHeaders, o) : o \in HeaderObjects}

HeadersNext ==
    \/ BuildHeadersStep
    \/ InterceptorEditsHeaders
    \/ LogDebugRequest
    \/ LogDebugResponse

HeadersSpec == HeadersInit /\ [][HeadersNext]_vars

\* buildUrl applied to every base address, path and query map
BuildUrlStep ==
    /\ pc = "buildUrl"
    /\ url' = buildUrl(urlArg.base, urlArg.path, urlArg.query)
    /\ pc' = "urlBuilt"
    /\ UNCHANGED <<call, attempt, maxRetries, lastError, idx, thrown, dispatchError,
                   response, fetched, fetchCalls, delays, hist, result>>
    /\ UNCHANGED dispatchVars
    /\ UNCHANGED <<headersArg, headers, records, urlArg>>
    /\ UNCHANGED resourceVars
    /\ UNCHANGED calls
    /\ UNCHANGED clientVars
    /\ UNCHANGED abortVars

UrlInit ==
    /\ rawConfig \in {c \in ClientConfigs : c.maxRetries = JSNum(0) /\ c.nRequest = 0
                                             /\ c.retryDelayMs = JSUndefined}
    /\ ambientFetch = JSFunction
    /\ client = "ready"
    /\ ctorError = NoError
    /\ config = resolveConfig(rawConfig, ambientFetch).config
    /\ call = NoCall
    /\ pc = "buildUrl"
    /\ attempt = 0
    /\ maxRetries = 0
    /\ lastError = NoError
    /\ idx = 0
    /\ thrown = NoError
    /\ dispatchError = NoError
    /\ response = NoResponse
    /\ fetched = 0
    /\ fetchCalls = 0
    /\ delays = <<>>
    /\ hist = <<>>
    /\ result = Pending
    /\ NoDispatch
    /\ NoAbort
    /\ headersArg = NoHeadersArg
    /\ headers = EmptyHeaders
    /\ records = <<>>
    /\ urlArg \in [base : BaseUrls, path : Paths, query : Queries]
    /\ url = NoUrl
    /\ NoResource
    /\ calls = <<>>

UrlNext == BuildUrlStep

UrlSpec == UrlInit /\ [][UrlNext]_vars

\* a resource method is invoked: it throws before it calls the client, or
\* it calls this.client.get / post / put / patch / delete once and returns
\* the promise of that call
ResourceMethod(inv) ==
    /\ client = "ready"
    /\ pc = "idle"
    /\ invocation' = inv
    /\ LET o == ResourceOutcome(inv)
       IN IF o.error # NoError
          THEN /\ dispatched' = <<>>
               /\ call' = NoCall
               /\ maxRetries' = 0
               /\ pc' = "done"
               /\ result' = Rejected(o.error)
          ELSE /\ dispatched' = <<o.request>>
               /\ call' = [method |-> o.request.method,
                           idempotent |-> o.request.idempotent,
                           body |-> o.request.body]
               /\ maxRetries' = budgetOf(o.request, config)
               /\ pc' = "loop"
               /\ result' = Pending
    /\ attempt' = 0
    /\ lastError' = NoError
    /\ idx' = 0
    /\ thrown' = NoError
    /\ dispatchError' = NoError
    /\ response' = NoResponse
    /\ fetched' = 0
    /\ fetchCalls' = 0
    /\ delays' = <<>>
    /\ hist' = <<>>
    /\ UNCHANGED dispatchVars
    /\ UNCHANGED clientVars
    /\ controllers' = <<>>
    /\ cancel' = NoCancel
    /\ UNCHANGED <<headersArg, headers, records, urlArg, url>>
    /\ UNCHANGED calls

\* the resource methods of a client without interceptors and without retries
ResourceInit ==
    /\ rawConfig \in {c \in ClientConfigs : c.maxRetries = JSNum(0) /\ c.nRequest = 0
                                             /\ c.retryDelayMs = JSUndefined}
    /\ ambientFetch = JSFunction
    /\ client = "ready"
    /\ ctorError = NoError
    /\ config = resolveConfig(rawConfig, ambientFetch).config
    /\ IdleCall

ResourceNext ==
    \/ \E inv \in Invocations : ResourceMethod(inv)
    \/ BeginAttempt
    \/ InvokeTransport
    \/ TransportReturns
    \/ TransportThrows
    \/ Classify
    \/ DispatchRejects
    \/ CatchError
    \/ RequestReturns

ResourceSpec == ResourceInit /\ [][ResourceNext]_vars

\* the timeout timer of an attempt fires: () => controller.abort()
TimerFires ==
    /\ \E i \in 1 .. Len(controllers) :
          /\ controllers[i].armed
          /\ controllers' =
                [controllers EXCEPT ![i] =
                    [@ EXCEPT !.armed = FALSE, !.fired = TRUE, !.aborted = TRUE,
                              !.reason = IF controllers[i].aborted THEN @
                                         ELSE "timeout"]]
    /\ UNCHANGED <<call, pc, attempt, maxRetries, lastError, idx, thrown, dispatchError,
                   response, fetched, fetchCalls, delays, hist, result, cancel>>
    /\ UNCHANGED dispatchVars
    /\ UNCHANGED clientVars
    /\ UNCHANGED helperVars

\* the caller aborts options.signal: the abort listener of every attempt that
\* attached one runs controller.abort(options.signal.reason)
CallerAborts ==
    /\ pc # "idle"
    /\ cancel.given
    /\ ~cancel.aborted
    /\ cancel' = [cancel EXCEPT !.aborted = TRUE]
    /\ controllers' =
          [i \in 1 .. Len(controllers) |->
              IF controllers[i].listening /\ ~controllers[i].aborted
              THEN [controllers[i] EXCEPT !.aborted = TRUE, !.reason = "caller"]
              ELSE controllers[i]]
    /\ UNCHANGED <<call, pc, attempt, maxRetries, lastError, idx, thrown, dispatchError,
                   response, fetched, fetchCalls, delays, hist, result>>
    /\ UNCHANGED dispatchVars
    /\ UNCHANGED clientVars
    /\ UNCHANGED helperVars

\* calls with a timeout and a signal of the caller's, on clients that retry
\* once and on clients with one interceptor a hook
TimeoutValuesOfCalls == {JSUndefined, JSNum(5)}
SignalValues == {"none", "live", "aborted"}
AbortConfigs ==
    {c \in ClientConfigs :
        /\ c.retryDelayMs = JSNum(0)
        /\ c.maxRetries.val <= 1
        /\ (c.maxRetries.val = 0 \/ c.nRequest = 0)}

AbortInit ==
    /\ rawConfig \in AbortConfigs
    /\ ambientFetch = JSFunction
    /\ client = "ready"
    /\ ctorError = NoError
    /\ config = resolveConfig(rawConfig, ambientFetch).config
    /\ IdleCall

AbortNext ==
    \/ \E t \in TimeoutValuesOfCalls, g \in SignalValues :
          StartCall("GET", Options(JSUndefined, JSUndefined, t, g))
    \/ BeginAttempt
    \/ RequestInterceptor
    \/ InvokeTransport
    \/ TransportReturns
    \/ TransportThrows
    \/ ResponseInterceptor
    \/ Classify
    \/ ErrorInterceptor
    \/ DispatchRejects
    \/ CatchError
    \/ DelayElapses
    \/ RequestReturns
    \/ TimerFires
    \/ CallerAborts

AbortSpec == AbortInit /\ [][AbortNext]_vars

\* a GET retried once on a client with one interceptor a hook, the timer of
\* each attempt running
RetriedConfigs ==
    {c \in ClientConfigs :
        /\ c.retryDelayMs = JSNum(0)
        /\ c.maxRetries.val = 1
        /\ c.nRequest = 1}

RetriedInit ==
    /\ rawConfig \in RetriedConfigs
    /\ ambientFetch = JSFunction
    /\ client = "ready"
    /\ ctorError = NoError
    /\ config = resolveConfig(rawConfig, ambientFetch).config
    /\ IdleCall

RetriedNext ==
    \/ StartCall("GET", Options(JSUndefined, JSUndefined, JSUndefined, "none"))
    \/ BeginAttempt
    \/ RequestInterceptor
    \/ InvokeTransport
    \/ TransportReturns
    \/ TransportThrows
    \/ ResponseInterceptor
    \/ Classify
    \/ ErrorInterceptor
    \/ DispatchRejects
    \/ CatchError
    \/ RequestReturns
    \/ TimerFires

RetriedSpec == RetriedInit /\ [][RetriedNext]_vars

(***************************************************************************)
(* Calls in flight at once (client.ts: request and dispatch are async; the *)
(* invocations of several calls interleave at their awaits).               *)
(***************************************************************************)
\* what the transport does with one invocation
Returned(r) == [threw |-> FALSE, kind |-> "none", response |-> r]
Threw(k) == [threw |-> TRUE, kind |-> k, response |-> NoResponse]

\* what the transport does with the successive invocations of one call
Scripts ==
    {<<Returned(Response(200, JSNull, TRUE, FALSE, "{\"ok\":true}")),
       Returned(Response(200, JSNull, TRUE, FALSE, "{\"ok\":true}"))>>,
     <<Returned(Response(500, JSNull, TRUE, FALSE, "{\"ok\":false}")),
       Returned(Response(200, JSNull, TRUE, FALSE, "{\"ok\":true}"))>>,
     <<Threw("TypeError"),
       Returned(Response(404, JSNull, TRUE, FALSE, "{\"ok\":false}"))>>,
     <<Returned(Response(429, JSStr(<<"2">>), TRUE, FALSE, "{\"ok\":false}")),
       Returned(Response(500, JSNull, TRUE, FALSE, "{\"ok\":false}"))>>}

\* the locals of one invocation of request and of its dispatch invocations
NotIssued ==
    [at |-> "unissued", method |-> "GET",
     options |-> Options(JSUndefined, JSUndefined, JSUndefined, "none"),
     script |-> <<>>, maxRetries |-> 0, attempt |-> 0, lastError |-> NoError,
     context |-> NoContext, sent |-> NoContext, error |-> NoError,
     fetchCalls |-> 0, result |-> Pending]

\* the error an attempt of dispatch ends with on this transport outcome,
\* NoError when it resolves
AttemptError(out, att) ==
    IF out.threw THEN PlainError(out.kind, att, "transport")
    ELSE IF ~Ok(out.response) THEN buildError(out.response, att)
    ELSE IF parseResponse(out.response).threw THEN PlainError("SyntaxError", att, "parse")
    ELSE NoError

RECURSIVE Intercepted(_, _, _)
\* runRequestInterceptors with interceptors that each set a header of theirs
Intercepted(ctx, i, n) ==
    IF i > n THEN ctx
    ELSE Intercepted(NextContext(ctx, Context(Append(ctx.headers, i))), i + 1, n)

\* the attempt counter kept in one place for every call of the client
NextAttempt_OnClient(cs, i) ==
    [j \in DOMAIN cs |-> [cs[j] EXCEPT !.attempt = @ + 1]]

\* attempt += 1: the loop variable of call i's invocation of request
NextAttempt(cs, i) == [cs EXCEPT ![i].attempt = @ + 1]

\* the rest of the state is that of a client on which the calls are made
OnlyCalls ==
    /\ UNCHANGED clientVars
    /\ UNCHANGED callVars
    /\ UNCHANGED <<headersArg, headers, records, urlArg, url>>
    /\ UNCHANGED resourceVars

\* request(method, path, options) is entered for call i
Issue(i) ==
    /\ calls[i].at = "unissued"
    /\ \E m \in {"GET", "POST"}, sc \in Scripts :
          calls' = [calls EXCEPT ![i] =
                      [NotIssued EXCEPT !.at = "loop", !.method = m, !.script = sc,
                                        !.maxRetries = budgetOf(NotIssued.options, config)]]
    /\ OnlyCalls

\* the loop test of call i's request; dispatch is entered and runs to its try
Begin(i) ==
    /\ calls[i].at = "loop"
    /\ IF calls[i].attempt <= calls[i].maxRetries
       THEN calls' = [calls EXCEPT ![i].at = "try", ![i].context = InitialContext,
                                   ![i].sent = NoContext, ![i].error = NoError]
       ELSE calls' = [calls EXCEPT ![i].at = "done",
                          ![i].result = Rejected(IF calls[i].lastError # NoError
                                                 THEN calls[i].lastError
                                                 ELSE MailrifyError(JSUndefined,
                                                        calls[i].attempt, "request"))]
    /\ OnlyCalls

\* call i's request interceptors run and its transport is invoked
Send(i) ==
    /\ calls[i].at = "try"
    /\ LET ctx == Intercepted(calls[i].context, 1, config.nRequest)
       IN calls' = [calls EXCEPT ![i].at = "fetch", ![i].context = ctx,
                                 ![i].sent = ctx, ![i].fetchCalls = @ + 1]
    /\ OnlyCalls

\* the transport settles call i's invocation; dispatch resolves or rejects
Settle(i) ==
    /\ calls[i].at = "fetch"
    /\ LET out == calls[i].script[calls[i].fetchCalls]
           err == AttemptError(out, calls[i].attempt)
       IN IF err = NoError
          THEN calls' = [calls EXCEPT ![i].at = "done",
                            ![i].result = Resolved(parseResponse(out.response).value)]
          ELSE calls' = [calls EXCEPT ![i].at = "caught", ![i].error = err]
    /\ OnlyCalls

\* the catch clause of call i's request
Catch(i) ==
    /\ calls[i].at = "caught"
    /\ LET c == calls[i]
           kept == [calls EXCEPT ![i].lastError = c.error]
       IN IF ~shouldRetry(c.method, c.error, c.options, c.attempt, c.maxRetries)
          THEN calls' = [kept EXCEPT ![i].at = "done", ![i].result = Rejected(c.error)]
          ELSE IF getRetryDelay(c.error, c.attempt, config) <= 0
          THEN calls' = NextAttempt([kept EXCEPT ![i].at = "loop"], i)
          ELSE calls' = [kept EXCEPT ![i].at = "delay"]
    /\ OnlyCalls

\* the backoff timer of call i's delay fires
Resume(i) ==
    /\ calls[i].at = "delay"
    /\ calls' = NextAttempt([calls EXCEPT ![i].at = "loop"], i)
    /\ OnlyCalls

\* the number of calls in flight at once
MaxCalls == 2

ConcurrentInit ==
    /\ rawConfig \in RetriedConfigs
    /\ ambientFetch = JSFunction
    /\ client = "ready"
    /\ ctorError = NoError
    /\ config = resolveConfig(rawConfig, ambientFetch).config
    /\ call = NoCall
    /\ pc = "idle"
    /\ attempt = 0
    /\ maxRetries = 0
    /\ lastError = NoError
    /\ idx = 0
    /\ thrown = NoError
    /\ dispatchError = NoError
    /\ response = NoResponse
    /\ fetched = 0
    /\ fetchCalls = 0
    /\ delays = <<>>
    /\ hist = <<>>
    /\ result = Pending
    /\ NoDispatch
    /\ NoAbort
    /\ headersArg = NoHeadersArg
    /\ headers = EmptyHeaders
    /\ records = <<>>
    /\ urlArg = NoUrlArg
    /\ url = NoUrl
    /\ NoResource
    /\ calls = [i \in 1 .. MaxCalls |-> NotIssued]

ConcurrentNext ==
    \E i \in 1 .. MaxCalls :
        \/ Issue(i)
        \/ Begin(i)
        \/ Send(i)
        \/ Settle(i)
        \/ Catch(i)
        \/ Resume(i)

ConcurrentSpec == ConcurrentInit /\ [][ConcurrentNext]_vars

\* the constructor applied to every raw configuration
CtorInit ==
    /\ rawConfig \in CtorConfigs
    /\ ambientFetch \in AmbientFetchValues
    /\ client = "new"
    /\ ctorError = NoError
    /\ config = CHOOSE n \in NoConfig : TRUE
    /\ IdleCall

CtorNext == Constructor

CtorSpec == CtorInit /\ [][CtorNext]_vars

\* buildError applied to every non-2xx response
HeaderChars == {"0", "2", "a", "-"}
BuildErrorStatuses == {301, 401, 403, 404, 429, 500}
ErrorBodies ==
    {<<TRUE, MessageJson>>, <<TRUE, ErrorJson>>, <<TRUE, DetailsJson>>,
     <<TRUE, NullDetailsJson>>, <<TRUE, "<html>">>, <<TRUE, "">>,
     <<TRUE, Unreadable>>, <<FALSE, "x">>, <<FALSE, "">>, <<FALSE, Unreadable>>}
RequestIds == {JSNull, JSStr(<<>>), JSStr(<<"r">>)}
BuildErrorInputs ==
    {Response(st, h, TRUE, FALSE, "{\"ok\":false}") :
        st \in BuildErrorStatuses,
        h \in {JSNull} \cup {JSStr(t) : t \in SeqsUpTo(HeaderChars, MaxHeaderLen)}}
    \cup {WithRequestId(Response(st, JSNull, b[1], FALSE, b[2]), id) :
            st \in BuildErrorStatuses, b \in ErrorBodies, id \in RequestIds}

BuildErrorStep ==
    /\ pc = "buildError"
    /\ thrown' = buildError(response, attempt)
    /\ pc' = "built"
    /\ UNCHANGED <<call, attempt, maxRetries, lastError, idx, dispatchError, response,
                   fetched, fetchCalls, delays, hist, result>>
    /\ UNCHANGED dispatchVars
    /\ UNCHANGED clientVars
    /\ UNCHANGED abortVars
    /\ UNCHANGED helperVars

BuildErrorInit ==
    /\ rawConfig \in {c \in ClientConfigs : c.maxRetries = JSNum(0) /\ c.nRequest = 0
                                             /\ c.retryDelayMs = JSUndefined}
    /\ ambientFetch = JSFunction
    /\ client = "ready"
    /\ ctorError = NoError
    /\ config = resolveConfig(rawConfig, ambientFetch).config
    /\ call = NoCall
    /\ pc = "buildError"
    /\ attempt = 0
    /\ maxRetries = 0
    /\ lastError = NoError
    /\ idx = 0
    /\ thrown = NoError
    /\ dispatchError = NoError
    /\ response \in BuildErrorInputs
    /\ fetched = 1
    /\ fetchCalls = 1
    /\ delays = <<>>
    /\ hist = <<>>
    /\ result = Pending
    /\ NoDispatch
    /\ NoAbort
    /\ NoHelper

BuildErrorNext == BuildErrorStep

\* dispatch up to its try, for every body and every layer of headers that
\* may name a content-type
ContentHeaderObjects == Objects({"Content-Type", "X-Extra"}, {"v"}, MaxHeaderEntries)
ContentOverrides ==
    {[given |-> FALSE, entries |-> <<>>]}
        \cup {[given |-> TRUE, entries |-> o] : o \in ContentHeaderObjects}

\* const headers = this.buildHeaders(options.headers); init.body is set
SerializeBodyStep ==
    /\ pc = "serialize"
    /\ LET built == buildHeaders(config, headersArg.static, headersArg.userAgent,
                                 headersArg.inBrowser, headersArg.overrides)
           out == serializeBody(call.body, built)
       IN IF out.threw
          THEN /\ thrown' = PlainError("TypeError", attempt, "serialize")
               /\ headers' = built
               /\ UNCHANGED requestContext
          ELSE /\ headers' = out.headers
               /\ requestContext' = [InitialContext EXCEPT !.body = out.body]
               /\ UNCHANGED thrown
    /\ pc' = "serialized"
    /\ UNCHANGED <<call, attempt, maxRetries, lastError, idx, dispatchError, response,
                   fetched, fetchCalls, delays, hist, result>>
    /\ UNCHANGED <<reqRuns, sent, respRuns, errRuns>>
    /\ UNCHANGED <<headersArg, records, urlArg, url>>
    /\ UNCHANGED resourceVars
    /\ UNCHANGED calls
    /\ UNCHANGED clientVars
    /\ UNCHANGED abortVars

BodyInit ==
    /\ rawConfig \in {c \in ClientConfigs : c.maxRetries = JSNum(0) /\ c.nRequest = 0
                                             /\ c.retryDelayMs = JSUndefined}
    /\ ambientFetch = JSFunction
    /\ client = "ready"
    /\ ctorError = NoError
    /\ config = resolveConfig(rawConfig, ambientFetch).config
    /\ call \in {[NoCall EXCEPT !.method = "POST", !.body = b] : b \in BodiesOfCalls}
    /\ pc = "serialize"
    /\ attempt = 0
    /\ maxRetries = 0
    /\ lastError = NoError
    /\ idx = 0
    /\ thrown = NoError
    /\ dispatchError = NoError
    /\ response = NoResponse
    /\ fetched = 0
    /\ fetchCalls = 0
    /\ delays = <<>>
    /\ hist = <<>>
    /\ result = Pending
    /\ NoDispatch
    /\ NoAbort
    /\ headersArg \in [static : ContentHeaderObjects, overrides : ContentOverrides,
                        userAgent : {JSUndefined}, inBrowser : {FALSE},
                        edit : {[op |-> "none", key |-> "", value |-> ""]}]
    /\ headers = EmptyHeaders
    /\ records = <<>>
    /\ urlArg = NoUrlArg
    /\ url = NoUrl
    /\ NoResource
    /\ calls = <<>>

BodyNext == SerializeBodyStep

BodySpec == BodyInit /\ [][BodyNext]_vars

\* the return statement of dispatch applied to every 2xx response
OkStatuses == {200, 201, 204}
OkBodies == {"", "{\"ok\":true}", "{\"ok\":false}", NullJson, "<html>", "x", Unreadable}
ParseInputs ==
    {Response(st, JSNull, j, z, b) :
        st \in OkStatuses, j \in BOOLEAN, z \in BOOLEAN, b \in OkBodies}

\* return (await this.parseResponse(finalResponse)) ?? undefined
ParseStep ==
    /\ pc = "parse"
    /\ IF parseResponse(response).threw
       THEN /\ thrown' = PlainError("SyntaxError", attempt, "parse")
            /\ UNCHANGED result
       ELSE /\ result' = Resolved(parseResponse(response).value)
            /\ UNCHANGED thrown
    /\ pc' = "parsed"
    /\ UNCHANGED <<call, attempt, maxRetries, lastError, idx, dispatchError, response,
                   fetched, fetchCalls, delays, hist>>
    /\ UNCHANGED dispatchVars
    /\ UNCHANGED clientVars
    /\ UNCHANGED abortVars
    /\ UNCHANGED helperVars

ParseInit ==
    /\ rawConfig \in {c \in ClientConfigs : c.maxRetries = JSNum(0) /\ c.nRequest = 0}
    /\ ambientFetch = JSFunction
    /\ client = "ready"
    /\ ctorError = NoError
    /\ config = resolveConfig(rawConfig, ambientFetch).config
    /\ call = NoCall
    /\ pc = "parse"
    /\ attempt = 0
    /\ maxRetries = 0
    /\ lastError = NoError
    /\ idx = 0
    /\ thrown = NoError
    /\ dispatchError = NoError
    /\ response \in ParseInputs
    /\ fetched = 1
    /\ fetchCalls = 1
    /\ delays = <<>>
    /\ hist = <<>>
    /\ result = Pending
    /\ NoDispatch
    /\ NoAbort
    /\ NoHelper

ParseNext == ParseStep

ParseSpec == ParseInit /\ [][ParseNext]_vars

BuildErrorSpec == BuildErrorInit /\ [][BuildErrorNext]_vars

(***************************************************************************)
(* Vocabulary of the properties.                                           *)
(***************************************************************************)
\* the call is idempotent: GET or HEAD by default, or idempotent = true
CallIsIdempotent ==
    \/ call.idempotent = JSTrue
    \/ call.idempotent = JSUndefined /\ call.method \in {"GET", "HEAD"}

\* a write verb called without an idempotent override
CallIsPlainWrite ==
    call.method \in {"POST", "PUT", "PATCH", "DELETE"} /\ call.idempotent = JSUndefined

\* the retry budget of the call in progress
Budget == IF call.idempotent = JSFalse THEN 0 ELSE config.maxRetries.val

Started ==
    pc \in {"loop", "requestInterceptors", "transport", "responseInterceptors",
            "errorInterceptors", "caught", "delay", "done"}
Settled == Started /\ pc = "done"

\* attempt i failed with an HTTP error of status >= 500
FailedWith5xx(i) ==
    /\ hist[i].err.kind = "HTTPError"
    /\ hist[i].err.status.tag = "num"
    /\ hist[i].err.status.val >= 500

\* the error classes the retry policy accepts
RetryableClass(e) ==
    \/ e.kind = "RateLimitError"
    \/ e.kind \in {"HTTPError", "AuthError"} /\ e.status.val >= 500
    \/ e.kind \notin TypedKinds

NeverRetriedClass(e) ==
    \/ e.kind = "AuthError"
    \/ e.kind = "HTTPError" /\ e.status.val < 500 /\ e.status.val # 429
    \/ e.kind = "ValidationError"

\* attempt i was followed by another attempt (or by the wait for one)
Retried(i) == i < Len(hist) \/ (i = Len(hist) /\ result.kind = "pending")

(***************************************************************************)
(* C1: an idempotent call (GET/HEAD, or idempotent = true on any verb)     *)
(* whose first k <= maxRetries attempts each fail with an HTTP status      *)
(* >= 500 is not rejected by those failures, and when the next attempt     *)
(* succeeds it resolves with the decoded body of that attempt's response   *)
(* after exactly k+1 transport invocations.                                *)
(***************************************************************************)
C1_RetriesUntilSuccess ==
    (Started /\ CallIsIdempotent) =>
        LET n == Len(hist)
        IN /\ (n <= config.maxRetries.val /\ \A i \in 1 .. n : FailedWith5xx(i))
                => result.kind # "rejected"
           /\ (result.kind = "resolved" /\ \A i \in 1 .. n - 1 : FailedWith5xx(i))
                => /\ n - 1 <= config.maxRetries.val
                   /\ fetchCalls = n
                   /\ Ok(response)
                   /\ (response.status # 204 /\ response.body = "{\"ok\":true}")
                        => result.value = ValJson([ok |-> TRUE])
                   /\ (response.status # 204 /\ response.body = "{\"ok\":false}")
                        => result.value = ValJson([ok |-> FALSE])
                   /\ response.status = 204 => result.value = ValUndefined

C1_Witness ==
    /\ Settled
    /\ call.method = "POST"
    /\ call.idempotent = JSTrue
    /\ result = Resolved(ValJson([ok |-> TRUE]))
    /\ Len(hist) = 2
    /\ FailedWith5xx(1)
    /\ fetchCalls = 2

(***************************************************************************)
(* C2 as stated: for a POST, PUT, PATCH or DELETE call without an          *)
(* idempotent override, a transport failure of the first attempt rejects   *)
(* the call with that very error after exactly one transport invocation.   *)
(***************************************************************************)
C2_AsStated ==
    (Settled /\ CallIsPlainWrite /\ attempt = 0 /\ thrown.src = "transport")
        => /\ result = Rejected(thrown)
           /\ fetchCalls = 1

(***************************************************************************)
(* C2 amended: such a call is never retried (one attempt, one transport    *)
(* invocation, whatever maxRetries is) and a transport failure of its      *)
(* first attempt rejects it with that error, or with the exception an      *)
(* error interceptor threw while handling that error.                      *)
(***************************************************************************)
C2_NoRetryForWrites ==
    (Started /\ CallIsPlainWrite) =>
        /\ attempt = 0
        /\ Len(hist) <= 1
        /\ pc # "delay"
        /\ (Len(hist) = 1) => Settled
        /\ (Settled /\ thrown.src = "transport")
            => /\ fetchCalls = 1
               /\ hist[1].raisedIn = "transport"
               /\ result.kind = "rejected"
               /\ \/ result.error = thrown
                  \/ result.error.src = "errorInterceptor" /\ idx < config.nError

C2_Witness ==
    /\ Settled
    /\ CallIsPlainWrite
    /\ config.maxRetries.val >= 1
    /\ thrown.src = "transport"
    /\ result = Rejected(thrown)
    /\ fetchCalls = 1

(***************************************************************************)
(* C3: in every call the transport is invoked at most budget+1 times,      *)
(* budget being 0 when options.idempotent is false and the configured      *)
(* maxRetries otherwise; attempts are numbered 0 through budget.           *)
(***************************************************************************)
C3_AttemptsWithinBudget ==
    Started =>
        /\ attempt \in 0 .. Budget
        /\ fetchCalls <= Budget + 1
        /\ fetchCalls <= attempt + 1
        /\ Len(hist) <= Budget + 1
        /\ \A i \in 1 .. Len(hist) : hist[i].err # NoError => hist[i].err.at = i - 1

C3_Witness ==
    /\ Settled
    /\ Budget >= 1
    /\ attempt = Budget
    /\ fetchCalls = Budget + 1

(***************************************************************************)
(* C4: after a failed attempt of an idempotent call with attempts          *)
(* remaining, the call is retried if and only if the error is a            *)
(* RateLimitError, an HTTPError with status >= 500 or an error outside the *)
(* typed hierarchy; AuthError, HTTPError below 500 other than 429 and      *)
(* ValidationError are never retried.                                      *)
(***************************************************************************)
C4_RetryIffRetryable ==
    Started =>
        \A i \in 1 .. Len(hist) :
            hist[i].err # NoError =>
                /\ (CallIsIdempotent /\ i <= Budget)
                    => (Retried(i) <=> RetryableClass(hist[i].err))
                /\ NeverRetriedClass(hist[i].err) => ~Retried(i)
                /\ Retried(i) => i <= Budget

C4_Witness ==
    /\ Started
    /\ Len(hist) = 2
    /\ hist[1].err.kind = "RateLimitError"
    /\ hist[2].err.kind = "ValidationError"
    /\ Settled

(***************************************************************************)
(* C5 as stated: when every attempt of a call fails with a retryable       *)
(* error, the call rejects with the error of the last attempt after        *)
(* exactly budget+1 transport invocations.                                 *)
(***************************************************************************)
AllAttemptsRetryable ==
    /\ CallIsIdempotent
    /\ \A i \in 1 .. Len(hist) : hist[i].err # NoError /\ RetryableClass(hist[i].err)

C5_AsStated ==
    (Settled /\ AllAttemptsRetryable)
        => /\ result = Rejected(hist[Len(hist)].err)
           /\ fetchCalls = Budget + 1

(***************************************************************************)
(* C5 amended: when every attempt of a call fails with a retryable error,  *)
(* the call rejects with the error of the last attempt (created in attempt *)
(* number budget) after exactly budget+1 attempts; the transport is        *)
(* invoked once in each attempt except those in which the serialization   *)
(* of the body or a request interceptor threw, so at most budget+1 times.  *)
(***************************************************************************)
C5_ExhaustionRethrowsLast ==
    (Settled /\ AllAttemptsRetryable)
        => /\ Len(hist) = Budget + 1
           /\ result = Rejected(hist[Len(hist)].err)
           /\ result.error.at = Budget
           /\ \A i \in 1 .. Len(hist) :
                hist[i].fetched
                    = (IF hist[i].raisedIn \in {"serialize", "requestInterceptor"}
                       THEN 0 ELSE 1)
           /\ fetchCalls
                = Cardinality({i \in 1 .. Len(hist) :
                                 hist[i].raisedIn \notin {"serialize", "requestInterceptor"}})

C5_Witness ==
    /\ Settled
    /\ AllAttemptsRetryable
    /\ Len(hist) = 2
    /\ hist[1].err.kind = "HTTPError"
    /\ hist[2].err.kind = "TypeError"
    /\ result = Rejected(hist[2].err)
    /\ fetchCalls = 2

(***************************************************************************)
(* C6: for every final response whose status is outside 200-299 the        *)
(* attempt raises an error whose kind is decided by the status in priority *)
(* order (401 or 403: AuthError, 429: RateLimitError, any other status:    *)
(* HTTPError) and whose status field equals the response status; such a    *)
(* response never resolves the call.                                       *)
(***************************************************************************)
KindForStatus(st) ==
    IF st \in {401, 403} THEN "AuthError"
    ELSE IF st = 429 THEN "RateLimitError"
    ELSE "HTTPError"

\* the response interceptors have all run and left a non-2xx response
FinalNon2xx ==
    /\ Started
    /\ response # NoResponse
    /\ ~Ok(response)
    /\ \/ pc \in {"errorInterceptors", "caught", "done"}
       \/ pc \in {"loop", "delay"} /\ hist # <<>>
    /\ thrown.src # "responseInterceptor"

C6_ErrorKindByStatus ==
    /\ FinalNon2xx
        => /\ thrown.src = "status"
           /\ thrown.kind = KindForStatus(response.status)
           /\ thrown.status = JSNum(response.status)
           /\ thrown.at = attempt \/ (pc \in {"loop", "delay"} /\ thrown.at = attempt - 1)
    /\ (Started /\ result.kind = "resolved") => Ok(response)
    /\ (Started /\ thrown.src = "status") => ~Ok(response)

C6_Witness ==
    /\ FinalNon2xx
    /\ response.status = 403
    /\ thrown.kind = "AuthError"
    /\ thrown.status = JSNum(403)
    /\ pc = "done"
    /\ result = Rejected(thrown)

(***************************************************************************)
(* C8 as stated: every error with which get/post/put/patch/delete rejects  *)
(* is a member of the typed error hierarchy (MailrifyError, HTTPError,     *)
(* AuthError, RateLimitError) or a ValidationError, whatever made the      *)
(* attempt fail.                                                           *)
(***************************************************************************)
C8_AsStated ==
    (/\ Settled
     /\ result.kind = "rejected"
     /\ thrown.src \in {"status", "transport"}
     /\ result.error = thrown)
        => result.error.kind \in TypedKinds

(***************************************************************************)
(* C8 amended: a call that rejects because its final response was non-2xx  *)
(* (and no error interceptor threw) rejects with a member of the typed     *)
(* hierarchy; an exception thrown by the transport (network failure,       *)
(* timeout or cancellation abort), by body parsing or by an interceptor    *)
(* reaches the caller as it was thrown, not converted to a typed error.    *)
(***************************************************************************)
LastAttempt == hist[Len(hist)]

C8_TypedOnlyForStatusErrors ==
    (Settled /\ result.kind = "rejected") =>
        /\ result.error = LastAttempt.err
        /\ thrown.src = LastAttempt.raisedIn
        /\ result.error = thrown \/ result.error.src = "errorInterceptor"
        /\ (FinalNon2xx /\ result.error = thrown)
            => /\ result.error.kind \in TypedKinds \ {"ValidationError", "MailrifyError"}
               /\ result.error.src = "status"
        /\ (thrown.src = "transport" /\ result.error = thrown)
            => result.error.kind \in TransportThrowKinds
        /\ (thrown.src = "parse" /\ result.error = thrown)
            => result.error.kind = "SyntaxError"
        /\ result.error.kind \in TypedKinds
            => result.error.src \in {"status", "requestInterceptor", "responseInterceptor",
                                     "errorInterceptor"}

C8_Witness ==
    /\ Settled
    /\ call.method = "GET"
    /\ result.kind = "rejected"
    /\ result.error.kind = "AbortError"
    /\ result.error.src = "transport"
    /\ Len(hist) = 2

(***************************************************************************)
(* C7 as stated: the RateLimitError built from a 429 response carries      *)
(* retryAfter equal to the retry-after header read as whole seconds times  *)
(* 1000, and retryAfter is absent when the header is missing or is not     *)
(* numeric.                                                                *)
(***************************************************************************)
\* the text is a decimal number: an optional minus sign, then digits only
IsNumericText(t) ==
    LET digits == IF t # <<>> /\ Head(t) = "-" THEN Tail(t) ELSE t
    IN digits # <<>> /\ \A i \in 1 .. Len(digits) : IsDigit(digits[i])

RECURSIVE DecimalValue(_)
DecimalValue(t) ==
    IF t = <<>> THEN 0
    ELSE IF Head(t) = "-" THEN 0 - DecimalValue(Tail(t))
    ELSE 10 * DecimalValue(SubSeq(t, 1, Len(t) - 1)) + DigitVal(t[Len(t)])

C7_AsStated ==
    (pc = "built" /\ response.status = 429) =>
        /\ thrown.kind = "RateLimitError"
        /\ IF response.retryAfter.tag = "string" /\ IsNumericText(response.retryAfter.str)
           THEN thrown.retryAfter = JSNum(1000 * DecimalValue(response.retryAfter.str))
           ELSE thrown.retryAfter = JSUndefined

(***************************************************************************)
(* C9: constructing a client with a missing, non-string, empty or          *)
(* whitespace-only apiKey throws ValidationError inside the constructor,   *)
(* and the transport is never invoked.                                     *)
(***************************************************************************)
BadApiKey(k) ==
    \/ k.tag \in {"undefined", "null"}
    \/ k.tag # "string"
    \/ k.str = <<>>
    \/ \A i \in 1 .. Len(k.str) : k.str[i] = " "

C9_BadApiKeyRejected ==
    /\ (client # "new" /\ BadApiKey(rawConfig.apiKey))
        => /\ client = "failed"
           /\ ctorError.kind = "ValidationError"
           /\ ctorError.status = JSNum(400)
    /\ client = "failed" => (pc = "idle" /\ fetchCalls = 0)
    /\ (client = "ready") => ~BadApiKey(config.apiKey)

C9_Witness ==
    /\ client = "failed"
    /\ rawConfig.apiKey = JSStr(<<" ", " ">>)
    /\ rawConfig.fetch = JSFunction
    /\ ctorError.kind = "ValidationError"
    /\ fetchCalls = 0

(***************************************************************************)
(* C10 as stated: when no usable transport function is available (none    *)
(* supplied and no ambient one, or a supplied value that is not a          *)
(* function) client construction fails at once and the failure is a        *)
(* ValidationError.                                                        *)
(***************************************************************************)
NoUsableTransport ==
    \/ rawConfig.fetch.tag \in {"undefined", "null"} /\ ambientFetch.tag # "function"
    \/ rawConfig.fetch.tag \notin {"undefined", "null", "function"}

C10_AsStated ==
    (client # "new" /\ NoUsableTransport)
        => /\ client = "failed"
           /\ ctorError.kind = "ValidationError"

(***************************************************************************)
(* C11: in each attempt the request interceptors run in registration       *)
(* order, each receives the context the one before it returned (the        *)
(* context before it when that one returned nothing), and the transport is *)
(* invoked with the context the last interceptor returned, so the header   *)
(* changes of every interceptor that returned a context reach the          *)
(* transport.                                                              *)
(***************************************************************************)
\* what a request interceptor run hands on
Handed(run) == IF run.gave.nullish THEN run.got ELSE run.gave

Range(q) == {q[i] : i \in 1 .. Len(q)}

C11_InterceptorsChained ==
    /\ Len(reqRuns) <= config.nRequest
    /\ \A i \in 1 .. Len(reqRuns) :
        /\ reqRuns[i].who = i
        /\ reqRuns[i].got = (IF i = 1 THEN InitialContext ELSE Handed(reqRuns[i - 1]))
    /\ ~sent.nullish
        => /\ Len(reqRuns) = config.nRequest
           /\ sent = (IF reqRuns = <<>> THEN InitialContext
                      ELSE Handed(reqRuns[Len(reqRuns)]))
           /\ \A i \in 1 .. Len(reqRuns) :
                ~reqRuns[i].gave.nullish => i \in Range(sent.headers)
    /\ (pc = "transport") => ~sent.nullish

C11_Witness ==
    /\ pc = "transport"
    /\ config.nRequest = 2
    /\ reqRuns[2].got = Context(<<1>>)
    /\ sent = Context(<<1, 2>>)

(***************************************************************************)
(* C12: the response that is classified and parsed is the one the last     *)
(* response interceptor left, not the one the transport returned: when the *)
(* final response is 2xx the call resolves with its body, when it is not   *)
(* the attempt fails with the typed error of its status.                   *)
(***************************************************************************)
\* the response left by the response interceptor runs so far
RECURSIVE LeftBy(_, _)
LeftBy(runs, n) ==
    IF n = 0 THEN runs[1].got
    ELSE IF runs[n].gave # NoResponse THEN runs[n].gave
    ELSE LeftBy(runs, n - 1)

\* every response interceptor has run
ResponsePipelineDone ==
    /\ Len(respRuns) = config.nResponse
    /\ \/ pc = "responseInterceptors" /\ idx = config.nResponse
       \/ pc = "errorInterceptors" /\ thrown.src \in {"status", "parse"}
       \/ pc = "done" /\ result.kind = "resolved"

C12_FinalResponseClassified ==
    /\ (ResponsePipelineDone /\ respRuns # <<>>)
        => /\ response = LeftBy(respRuns, Len(respRuns))
           /\ respRuns[1].got \in TransportResponses
           /\ \A i \in 2 .. Len(respRuns) : respRuns[i].got = LeftBy(respRuns, i - 1)
    /\ (pc = "errorInterceptors" /\ thrown.src = "status")
        => /\ ~Ok(response)
           /\ thrown.kind = KindForStatus(response.status)
           /\ thrown.status = JSNum(response.status)
    /\ (pc = "errorInterceptors" /\ thrown.src = "parse")
        => Ok(response) /\ parseResponse(response).threw
    /\ (pc = "done" /\ result.kind = "resolved")
        => /\ Ok(response)
           /\ result.value = parseResponse(response).value

C12_Witness ==
    /\ pc = "done"
    /\ config.nResponse = 2
    /\ Len(respRuns) = 2
    /\ respRuns[1].got.status = 404
    /\ respRuns[1].gave.status = 500
    /\ respRuns[2].gave.status = 200
    /\ result = Resolved(ValJson([ok |-> FALSE]))

(***************************************************************************)
(* C13 as stated: whatever step of an attempt threw (address building,     *)
(* header building, body serialization, request interceptors, transport,   *)
(* response interceptors, status classification, body parsing), every      *)
(* registered error interceptor has been run, in registration order and    *)
(* with that error, when the error reaches the retry loop.  (Attempts in   *)
(* which an error interceptor itself threw are left aside.)                *)
(***************************************************************************)
C13_AsStated ==
    (pc = "caught" /\ dispatchError = thrown)
        => /\ Len(errRuns) = config.nError
           /\ \A i \in 1 .. Len(errRuns) :
                errRuns[i].who = i /\ errRuns[i].error = thrown

(***************************************************************************)
(* C14: error interceptors cannot suppress a failure.  An attempt in which *)
(* an error was thrown never resolves; when no error interceptor throws it *)
(* rejects with the original error, when one throws it rejects with that   *)
(* interceptor's exception and the error interceptors after it are not     *)
(* run.                                                                    *)
(***************************************************************************)
C14_ErrorInterceptorsObserveOnly ==
    /\ (pc = "done" /\ result.kind = "resolved")
        => thrown = NoError /\ errRuns = <<>>
    /\ (thrown # NoError /\ pc = "done") => result.kind = "rejected"
    /\ (pc = "caught")
        => /\ thrown # NoError
           /\ \A i \in 1 .. Len(errRuns) :
                errRuns[i].who = i /\ errRuns[i].error = thrown
           /\ \/ /\ dispatchError = thrown
                 /\ Len(errRuns) = config.nError \/ errRuns = <<>>
              \/ /\ dispatchError.src = "errorInterceptor"
                 /\ dispatchError # thrown
                 /\ Len(errRuns) >= 1
                 /\ Len(errRuns) <= config.nError
                 /\ Len(errRuns) = idx + 1
    /\ (pc = "done" /\ result.kind = "rejected" /\ attempt <= maxRetries)
        => result.error = dispatchError

C14_Witness ==
    /\ pc = "caught"
    /\ config.nError = 2
    /\ thrown.src = "transport"
    /\ Len(errRuns) = 1
    /\ errRuns[1].error = thrown
    /\ dispatchError.src = "errorInterceptor"

(***************************************************************************)
(* C17: within one call the attempts are strictly sequential.  Attempt n+1 *)
(* starts only after attempt n has thrown, its error interceptors have     *)
(* finished and the backoff delay has elapsed (a delay of zero or less is  *)
(* not waited for); while a transport invocation is pending, every other   *)
(* transport invocation of the call belongs to a finished attempt.         *)
(***************************************************************************)
RECURSIVE FetchedIn(_, _)
FetchedIn(h, n) == IF n = 0 THEN 0 ELSE h[n].fetched + FetchedIn(h, n - 1)

NextAttemptStarts == attempt' = attempt + 1

C17_AttemptsSequential ==
    /\ []((pc = "transport")
            => /\ Len(hist) = attempt
               /\ fetched = 1
               /\ fetchCalls = FetchedIn(hist, Len(hist)) + 1)
    /\ []((pc \in {"requestInterceptors", "transport", "responseInterceptors",
                   "errorInterceptors", "caught"})
            => Len(hist) = attempt)
    /\ [][NextAttemptStarts
            => /\ pc \in {"caught", "delay"}
               /\ pc' = "loop"
               /\ thrown # NoError
               /\ Len(hist') = attempt'
               /\ hist'[attempt'].err = dispatchError
               /\ dispatchError # NoError
               /\ Len(delays') = attempt'
               /\ (pc = "caught") => delays'[attempt'] <= 0
               /\ (pc = "delay") => delays'[attempt'] > 0]_vars

C17_Witness ==
    /\ pc = "transport"
    /\ attempt = 1
    /\ Len(hist) = 1
    /\ hist[1].fetched = 1
    /\ delays = <<500>>
    /\ fetchCalls = 2

(***************************************************************************)
(* C18 as stated: every attempt of a call invokes the transport exactly    *)
(* once.                                                                   *)
(***************************************************************************)
C18_AsStated ==
    \A i \in 1 .. Len(hist) : hist[i].fetched = 1

(***************************************************************************)
(* C18 amended: an attempt invokes the transport at most once: exactly     *)
(* once when the steps before the invocation (serialization of the body,   *)
(* request interceptors) all returned, and not at all when one of them     *)
(* threw.                                                                  *)
(***************************************************************************)
ThrewBeforeTransport(src) == src \in {"serialize", "requestInterceptor"}

C18_TransportAtMostOncePerAttempt ==
    /\ fetched \in {0, 1}
    /\ \A i \in 1 .. Len(hist) :
        /\ hist[i].fetched \in {0, 1}
        /\ hist[i].fetched = 0 <=> ThrewBeforeTransport(hist[i].raisedIn)
    /\ (pc \in {"errorInterceptors", "caught"})
        => (fetched = 0 <=> ThrewBeforeTransport(thrown.src))
    /\ (pc \in {"transport", "responseInterceptors"}) => fetched = 1
    /\ (pc = "requestInterceptors") => fetched = 0

C18_Witness ==
    /\ pc = "done"
    /\ Len(hist) = 2
    /\ hist[1].raisedIn = "requestInterceptor"
    /\ hist[1].fetched = 0
    /\ hist[2].raisedIn = "none"
    /\ hist[2].fetched = 1
    /\ fetchCalls = 1

(***************************************************************************)
(* C15 as stated: with debug enabled, the credential appears in the        *)
(* headers of no diagnostic record, whatever headers the static            *)
(* configuration, the per-call overrides or a request interceptor set.     *)
(***************************************************************************)
ContainsCredential(v) == v \in {Join(config.apiKey.str), Bearer(config.apiKey)}

C15_AsStated ==
    \A i \in 1 .. Len(records), n \in HeaderNames :
        records[i].kind = "request" => ~ContainsCredential(records[i].headers[n])

(***************************************************************************)
(* C15 amended: in every diagnostic record of a request or a response the  *)
(* value of the authorization header, whatever its spelling and whoever    *)
(* set it, is replaced by the placeholder REDACTED; every other header is  *)
(* recorded with its value, so a credential that the configuration, a      *)
(* per-call override, an interceptor or the server put into another header *)
(* is recorded in clear.                                                   *)
(***************************************************************************)
C15_AuthorizationRedacted ==
    /\ Len(records) <= 1
    /\ (pc = "logged") <=> (records # <<>>)
    /\ \A i \in 1 .. Len(records) :
        /\ records[i].headers["authorization"] \in {NoValue, "REDACTED"}
        /\ (records[i].headers["authorization"] = "REDACTED")
                <=> (headers["authorization"] # NoValue)
        /\ \A n \in HeaderNames \ {"authorization"} :
                records[i].headers[n] = headers[n]

C15_Witness ==
    /\ pc = "logged"
    /\ records[1].kind = "request"
    /\ headersArg.static = <<Entry("Authorization", "k")>>
    /\ headersArg.edit.op = "none"
    /\ headers["authorization"] = "Bearer k"
    /\ records[1].headers["authorization"] = "REDACTED"
    /\ records[1].headers["x-mailrify-client"] = "mailrify"

(***************************************************************************)
(* C19: with no request interceptor, every header the transport receives   *)
(* has the value of the highest layer that sets its name, the layers being *)
(* default Accept < configured headers < forced Authorization and client   *)
(* identity (x-mailrify-client, and user-agent where one is configured     *)
(* outside a browser) < per-call overrides; names compare without regard   *)
(* to case.  A configured header never changes Authorization, a per-call   *)
(* override does.                                                          *)
(***************************************************************************)
\* the value the last property of o named n (in any case) has, if any
RECURSIVE LastNamed(_, _, _)
LastNamed(o, n, k) ==
    IF k = 0 THEN NoValue
    ELSE IF Lower(o[k].key) = n THEN o[k].value
    ELSE LastNamed(o, n, k - 1)

ForcedHeader(n) ==
    CASE n = "authorization" -> "Bearer k"
      [] n = "x-mailrify-client" -> "mailrify"
      [] n = "user-agent" ->
            IF headersArg.userAgent = JSStr(<<"u">>) /\ ~headersArg.inBrowser
            THEN "u" ELSE NoValue
      [] OTHER -> NoValue

ExpectedHeader(n) ==
    LET over == LastNamed(headersArg.overrides.entries, n,
                          Len(headersArg.overrides.entries))
        static == LastNamed(headersArg.static, n, Len(headersArg.static))
    IN IF over # NoValue THEN over
       ELSE IF ForcedHeader(n) # NoValue THEN ForcedHeader(n)
       ELSE IF static # NoValue THEN static
       ELSE IF n = "accept" THEN "application/json"
       ELSE NoValue

C19_HeaderPrecedence ==
    (pc = "editHeaders")
        => /\ \A n \in HeaderNames : headers[n] = ExpectedHeader(n)
           /\ (\A i \in 1 .. Len(headersArg.overrides.entries) :
                    headersArg.overrides.entries[i].key # "Authorization")
                => headers["authorization"] = "Bearer k"

C19_Witness ==
    /\ pc = "editHeaders"
    /\ headersArg.static = <<Entry("Authorization", "v"), Entry("Accept", "v")>>
    /\ headersArg.overrides = [given |-> TRUE, entries |-> <<Entry("X-Extra", "k")>>]
    /\ headers["authorization"] = "Bearer k"
    /\ headers["accept"] = "v"
    /\ headers["x-extra"] = "k"

(***************************************************************************)
(* C20 as stated: the query string of the built address lists the keys of  *)
(* the query map in insertion order: a scalar value gives one pair         *)
(* key=String(value), a sequence one pair per element in element order     *)
(* without its null and undefined elements, a null or undefined value      *)
(* nothing; the query and fragment of the base address are discarded.      *)
(***************************************************************************)
RECURSIVE ItemPairs(_, _)
ItemPairs(k, items) ==
    IF items = <<>> THEN <<>>
    ELSE (IF items[1].tag \in {"null", "undefined"} THEN <<>>
          ELSE <<Entry(k, String(items[1]))>>) \o ItemPairs(k, Tail(items))

PairsOf(e) ==
    IF e.value.tag \in {"null", "undefined"} THEN <<>>
    ELSE IF e.value.tag = "array" THEN ItemPairs(e.key, e.value.items)
    ELSE <<Entry(e.key, String(e.value))>>

RECURSIVE Flatten(_)
Flatten(entries) ==
    IF entries = <<>> THEN <<>> ELSE PairsOf(entries[1]) \o Flatten(Tail(entries))

Invoked == invocation # NoInvocation /\ pc # "idle"
StoppedLocally == Invoked /\ ResourceOutcome(invocation).error # NoError

\* what a caller may leave out: the parameter object of a list method, its
\* date filters, the scheduledAt of a campaign
OptionalFields == {"params", "startDate", "endDate", "request.scheduledAt"}
StoppedOnRequired ==
    StoppedLocally /\ ResourceOutcome(invocation).error.src \notin OptionalFields

C16_AsStated ==
    /\ StoppedOnRequired
          => /\ result.kind = "rejected"
             /\ result.error.kind = "ValidationError"
             /\ fetchCalls = 0
    /\ (Invoked /\ ~StoppedLocally)
          => /\ Len(dispatched) = 1
             /\ (invocation.api = "emails" /\ invocation.method = "batch")
                   => dispatched[1].body = invocation.a1

\* the part of C16 that holds: a method that stops locally rejects with the
\* error of the step that stopped it, makes no call on the client and never
\* reaches the transport; any other makes exactly one call
ResourceCallsOnce ==
    Invoked
        => IF StoppedLocally
           THEN /\ result.kind = "rejected"
                /\ result.error.kind \in {"ValidationError", "RangeError", "TypeError"}
                /\ dispatched = <<>>
                /\ fetchCalls = 0
           ELSE /\ Len(dispatched) = 1
                /\ fetchCalls <= 1
                /\ (invocation.api = "emails" /\ invocation.method = "batch")
                      => dispatched[1].body = invocation.a1

(***************************************************************************)
(* C21 as stated: a constructed client has a finite timeout > 0,           *)
(* maxRetries >= 0 and retryDelayMs >= 0; a supplied timeout, maxRetries   *)
(* or retryDelayMs that is not such a number makes the constructor throw   *)
(* ValidationError; an omitted one resolves to 30000, 2 and 500.  (Stated  *)
(* for configurations with a usable transport function.)                   *)
(***************************************************************************)
IsPositiveNumber(v) == v.tag = "num" /\ v.val > 0
IsNonNegativeNumber(v) == v.tag = "num" /\ v.val >= 0
Supplied(v) == v # JSUndefined

C21_AsStated ==
    /\ client = "ready"
          => /\ IsPositiveNumber(config.timeout)
             /\ IsNonNegativeNumber(config.maxRetries)
             /\ IsNonNegativeNumber(config.retryDelayMs)
             /\ ~Supplied(rawConfig.timeout) => config.timeout = JSNum(30000)
             /\ ~Supplied(rawConfig.maxRetries) => config.maxRetries = JSNum(2)
             /\ ~Supplied(rawConfig.retryDelayMs) => config.retryDelayMs = JSNum(500)
    /\ (/\ client # "new"
        /\ ~NoUsableTransport
        /\ \/ Supplied(rawConfig.timeout) /\ ~IsPositiveNumber(rawConfig.timeout)
           \/ Supplied(rawConfig.maxRetries) /\ ~IsNonNegativeNumber(rawConfig.maxRetries)
           \/ Supplied(rawConfig.retryDelayMs) /\ ~IsNonNegativeNumber(rawConfig.retryDelayMs))
          => /\ client = "failed"
             /\ ctorError.kind = "ValidationError"

\* the part of C21 that holds: what the constructor accepts for maxRetries
\* and retryDelayMs is whatever does not compare below 0, NaN included
ConfigWithinWhatIsTested ==
    /\ client = "ready"
          => /\ IsPositiveNumber(config.timeout)
             /\ ~JSLess(config.maxRetries, 0)
             /\ ~JSLess(config.retryDelayMs, 0)
             /\ ~Supplied(rawConfig.timeout) => config.timeout = JSNum(30000)
             /\ ~Supplied(rawConfig.maxRetries) => config.maxRetries = JSNum(2)
             /\ ~Supplied(rawConfig.retryDelayMs) => config.retryDelayMs = JSNum(500)
    /\ (/\ client # "new"
        /\ \/ Supplied(rawConfig.timeout) /\ ~IsPositiveNumber(rawConfig.timeout)
           \/ JSLess(rawConfig.maxRetries, 0)
           \/ JSLess(rawConfig.retryDelayMs, 0))
          => /\ client = "failed"
             /\ ctorError.kind = "ValidationError"

(***************************************************************************)
(* C22 as stated: the delay awaited after failed attempt n (0-based) is    *)
(* the retryAfter of the RateLimitError the attempt failed with, for every *)
(* retry-after value such an error carries, and retryDelayMs * 2^n in      *)
(* every other case.                                                       *)
(***************************************************************************)
CarriesRetryAfter(e) == e.kind = "RateLimitError" /\ e.retryAfter # JSUndefined

C22_AsStated ==
    \A i \in 1 .. Len(delays) :
        delays[i] = IF CarriesRetryAfter(hist[i].err) THEN hist[i].err.retryAfter.val
                    ELSE config.retryDelayMs.val * Pow2(i - 1)

\* the part of C22 that holds: a carried retry-after other than 0 is the
\* delay, and the backoff is retryDelayMs * 2^n
DelayFromTruthyRetryAfter ==
    \A i \in 1 .. Len(delays) :
        delays[i] = IF CarriesRetryAfter(hist[i].err) /\ hist[i].err.retryAfter # JSNum(0)
                    THEN hist[i].err.retryAfter.val
                    ELSE config.retryDelayMs.val * Pow2(i - 1)

(***************************************************************************)
(* C23: the signal an attempt hands to the transport is governed by a      *)
(* timer of the effective timeout (options.timeout when given, else the    *)
(* configured timeout) and by the caller's signal: it is aborted exactly   *)
(* when that timer has fired or the caller's signal is aborted; and when   *)
(* the caller's signal was aborted as the attempt started, the signal is   *)
(* aborted already when the transport is invoked.                          *)
(***************************************************************************)
EffectiveTimeout == IF cancel.timeout # JSUndefined THEN cancel.timeout ELSE config.timeout
CallerAborted == cancel.given /\ cancel.aborted
\* the caller's signal was aborted when attempt i wired its controller
AbortedAtStart(i) == cancel.given /\ ~controllers[i].listening

C23_SignalAbortsOnTimeoutOrCaller ==
    \A i \in 1 .. Len(controllers) :
        /\ controllers[i].ms = EffectiveTimeout
        /\ controllers[i].aborted <=> (controllers[i].fired \/ CallerAborted)
        /\ controllers[i].reason = "timeout" => controllers[i].fired
        /\ controllers[i].reason = "caller" => CallerAborted
        /\ (controllers[i].handed /\ AbortedAtStart(i)) => controllers[i].abortedWhenHanded

C23_Witness ==
    /\ Len(controllers) = 2
    /\ cancel.timeout = JSNum(5)
    /\ controllers[1].reason = "timeout"
    /\ controllers[1].ms = JSNum(5)
    /\ AbortedAtStart(2)
    /\ controllers[2].handed
    /\ controllers[2].abortedWhenHanded

(***************************************************************************)
(* C24: the timeout timer of an attempt is armed only while that attempt   *)
(* is running its request interceptors or waiting for the transport: once  *)
(* the transport has returned or a step has thrown the timer is disarmed,  *)
(* so it cannot fire after the attempt has ended, and no timer is armed    *)
(* once the call has settled.                                              *)
(***************************************************************************)
TimerMayBeArmed(i) == i = Len(controllers) /\ pc \in {"requestInterceptors", "transport"}

C24_TimerDisarmedAtEnd ==
    \A i \in 1 .. Len(controllers) : controllers[i].armed => TimerMayBeArmed(i)

C24_Witness ==
    /\ pc = "done"
    /\ result.kind = "rejected"
    /\ Len(controllers) = 2
    /\ ~controllers[1].fired
    /\ ~controllers[2].fired
    /\ hist[1].raisedIn = "transport"
    /\ hist[2].raisedIn = "status"

(***************************************************************************)
(* C25: no step of request or dispatch (interceptor runs, retries and      *)
(* delays included) writes to the resolved configuration: credential, base *)
(* address, timeout, retry policy, transport and interceptor set stay what *)
(* resolveConfig returned at construction, whatever calls are made.        *)
(***************************************************************************)
AsConstructed == resolveConfig(rawConfig, ambientFetch).config

C25_ConfigReadOnly ==
    /\ [](client = "ready" => config = AsConstructed)
    /\ [][client = "ready" => (config' = config /\ client' = client)]_vars

C25_Witness ==
    /\ pc = "done"
    /\ Len(hist) = 2
    /\ delays = <<500>>
    /\ config.nRequest = 1
    /\ reqRuns # <<>>
    /\ config = AsConstructed
    /\ config.retryDelayMs = JSNum(500)

(***************************************************************************)
(* C28: options.idempotent overrides the verb default both ways: a POST,   *)
(* PUT, PATCH or DELETE call with idempotent = true is retried exactly     *)
(* when a GET would be (a failed attempt with attempts remaining and a     *)
(* RateLimitError, an HTTPError with status >= 500 or an untyped error),   *)
(* and a GET or HEAD call with idempotent = false is never retried.        *)
(***************************************************************************)
WriteVerbs == {"POST", "PUT", "PATCH", "DELETE"}
ReadVerbs == {"GET", "HEAD"}

\* the retry rule of a GET called without an idempotent option
RetriedAsGet(i) == i <= config.maxRetries.val /\ RetryableClass(hist[i].err)

C28_IdempotentFlagOverrides ==
    Started =>
        /\ ((call.method \in WriteVerbs /\ call.idempotent = JSTrue)
              \/ (call.method = "GET" /\ call.idempotent = JSUndefined))
            => \A i \in 1 .. Len(hist) :
                  hist[i].err # NoError => (Retried(i) <=> RetriedAsGet(i))
        /\ (call.method \in ReadVerbs /\ call.idempotent = JSFalse)
            => /\ attempt = 0
               /\ Len(hist) <= 1
               /\ delays = <<>>
               /\ pc # "delay"
               /\ (Len(hist) = 1) => Settled

C28_Witness ==
    /\ call.method = "POST"
    /\ call.idempotent = JSTrue
    /\ Settled
    /\ Len(hist) = 2
    /\ hist[1].err.kind = "HTTPError"
    /\ hist[1].err.status = JSNum(500)
    /\ hist[2].err.kind = "AuthError"


(***************************************************************************)
(* C30: reading the payload of an error response never raises. For a       *)
(* non-2xx response whose body cannot be read or decoded, buildError still *)
(* returns the typed error its status selects, with the status, the        *)
(* fallback message of that class and no code; it never returns the        *)
(* exception of the read.                                                  *)
(***************************************************************************)
\* json() or text() rejects on this response
Undecodable(r) ==
    \/ r.body = Unreadable
    \/ r.json /\ r.body \notin ErrorJsonTexts

\* the message of the class when the payload gives none
FallbackMessage(st) ==
    IF st \in {401, 403} THEN UnauthorizedMessage
    ELSE IF st = 429 THEN RateLimitMessage
    ELSE FailedMessage(st)

C30_ErrorPayloadNeverRaises ==
    (pc = "built")
        => /\ thrown.kind = KindForStatus(response.status)
           /\ thrown.src = "status"
           /\ thrown.status = JSNum(response.status)
           /\ Undecodable(response)
                => /\ thrown.message = FallbackMessage(response.status)
                   /\ thrown.code = JSUndefined

C30_Witness ==
    /\ pc = "built"
    /\ Undecodable(response)
    /\ response.body = "<html>"
    /\ response.status = 500
    /\ thrown.kind = "HTTPError"
    /\ thrown.message = FailedMessage(500)


(***************************************************************************)
(* C29: within an attempt the stages happen in a fixed order: every        *)
(* request interceptor, then the transport, then every response            *)
(* interceptor, then classification by status and parsing. Response        *)
(* interceptors run only on a response the transport returned, whatever    *)
(* its status; error interceptors run only after an error was thrown in    *)
(* the attempt, and once they run no other stage of the attempt does.      *)
(***************************************************************************)
\* the transport has returned a response in this attempt
TransportReturned == fetched = 1 /\ response # NoResponse

\* dispatch is inside its try or catch block
AttemptRuns ==
    pc \in {"requestInterceptors", "transport", "responseInterceptors", "errorInterceptors"}

\* the stages the attempt has been through, read from its records
StagesSoFar ==
    /\ (AttemptRuns /\ (fetched > 0 \/ pc = "transport"))
        => /\ Len(reqRuns) = config.nRequest
           /\ \A i \in 1 .. Len(reqRuns) : reqRuns[i].who = i
           /\ fetched = 1
    /\ (pc = "transport") => respRuns = <<>> /\ errRuns = <<>> /\ thrown = NoError
    /\ (respRuns # <<>>)
        => /\ TransportReturned
           /\ Len(respRuns) <= config.nResponse
           /\ respRuns[1].got \in TransportResponses
    /\ (pc = "errorInterceptors" /\ thrown.src \in {"status", "parse"})
        => /\ TransportReturned
           /\ Len(respRuns) = config.nResponse
    /\ (pc = "done" /\ result.kind = "resolved")
        => /\ TransportReturned
           /\ Len(respRuns) = config.nResponse
           /\ errRuns = <<>>
    /\ (errRuns # <<>>)
        => /\ thrown # NoError
           /\ pc \in {"errorInterceptors", "caught"}
           /\ \A i \in 1 .. Len(errRuns) :
                errRuns[i].who = i /\ errRuns[i].error = thrown

\* a step of a stage is taken only in that stage's turn
StageStep ==
    /\ (Len(reqRuns') > Len(reqRuns))
        => fetched = 0 /\ respRuns = <<>> /\ errRuns = <<>>
    /\ (fetched' > fetched)
        => Len(reqRuns) = config.nRequest /\ respRuns = <<>> /\ errRuns = <<>>
    /\ (Len(respRuns') > Len(respRuns))
        => TransportReturned /\ errRuns = <<>> /\ reqRuns' = reqRuns
    /\ (Len(errRuns') > Len(errRuns))
        => /\ thrown # NoError
           /\ fetched' = fetched
           /\ Len(reqRuns') <= Len(reqRuns)
           /\ Len(respRuns') <= Len(respRuns)
    /\ (pc = "errorInterceptors")
        => /\ pc' \in {"errorInterceptors", "caught"}
           /\ fetched' = fetched
           /\ response' = response
           /\ Len(reqRuns') <= Len(reqRuns)
           /\ Len(respRuns') <= Len(respRuns)

C29_StagesInOrder == []StagesSoFar /\ [][StageStep]_vars

\* a non-2xx response went through both response interceptors and was then
\* classified; the error interceptors run last
C29_Witness ==
    /\ pc = "errorInterceptors"
    /\ config.nRequest = 2
    /\ config.nResponse = 2
    /\ config.nError = 2
    /\ Len(reqRuns) = 2
    /\ Len(respRuns) = 2
    /\ respRuns[1].got.status = 404
    /\ thrown.src = "status"
    /\ Len(errRuns) = 1


(***************************************************************************)
(* C27: every attempt builds its own header set, address and cancellation  *)
(* controller. An attempt starts from the context dispatch builds, whatever *)
(* the interceptors of an earlier attempt did to theirs, and the signal of  *)
(* an attempt is aborted only by its own timer (or the caller), so a        *)
(* timeout abort of attempt n leaves the signal of attempt n+1 unaborted.   *)
(***************************************************************************)
\* the controller of the attempt in progress
OwnController == controllers[attempt + 1]

FreshPerAttempt ==
    /\ (pc = "requestInterceptors" /\ idx = 0) => requestContext = InitialContext
    /\ (AttemptRuns /\ reqRuns # <<>>) => reqRuns[1].got = InitialContext
    /\ (pc = "transport")
        => sent \in {InitialContext} \cup {Context(<<i>>) : i \in 1 .. config.nRequest}
    /\ AttemptRuns => Len(controllers) = attempt + 1
    /\ \A i \in 1 .. Len(controllers) :
          controllers[i].aborted => controllers[i].fired /\ controllers[i].reason = "timeout"

\* a timer aborts the signal of its own attempt and of no other
OwnTimerOnly ==
    \A i \in 1 .. Len(controllers) :
        (i <= Len(controllers') /\ controllers'[i].aborted /\ ~controllers[i].aborted)
            => /\ controllers[i].armed
               /\ \A j \in (1 .. Len(controllers)) \ {i} : controllers'[j] = controllers[j]

C27_FreshPerAttempt == []FreshPerAttempt /\ [][OwnTimerOnly]_vars

\* the first attempt's interceptor ran, its transport call was aborted by
\* the timeout; the second attempt sends the interceptor's header once, on a
\* signal that is not aborted
C27_Witness ==
    /\ attempt = 1
    /\ pc = "transport"
    /\ hist[1].raisedIn = "transport"
    /\ hist[1].err.kind = "AbortError"
    /\ controllers[1].aborted
    /\ controllers[1].reason = "timeout"
    /\ ~OwnController.aborted
    /\ OwnController.armed
    /\ reqRuns[1].got = InitialContext
    /\ sent = Context(<<1>>)


(***************************************************************************)
(* C26: calls in flight at once on one client do not interfere. Whatever   *)
(* the interleaving of their steps, each call ends with the outcome and    *)
(* the number of transport invocations it has when it runs alone on the    *)
(* same client against the same transport answers, its transport receives  *)
(* the headers of its own attempt, and a step of one call leaves the       *)
(* locals of every other call as they were.                                *)
(***************************************************************************)
RECURSIVE Alone(_, _, _, _)
\* the call run by itself from attempt att on, n transport invocations made:
\* [result |-> its outcome, fetchCalls |-> its transport invocations]
Alone(c, att, last, n) ==
    IF att > c.maxRetries
    THEN [result |-> Rejected(IF last # NoError THEN last
                              ELSE MailrifyError(JSUndefined, att, "request")),
          fetchCalls |-> n]
    ELSE LET out == c.script[n + 1]
             err == AttemptError(out, att)
         IN IF err = NoError
            THEN [result |-> Resolved(parseResponse(out.response).value),
                  fetchCalls |-> n + 1]
            ELSE IF ~shouldRetry(c.method, err, c.options, att, c.maxRetries)
            THEN [result |-> Rejected(err), fetchCalls |-> n + 1]
            ELSE Alone(c, att + 1, err, n + 1)

\* the call's budget as request computes it on entry
AsIssued(c) == [c EXCEPT !.maxRetries = budgetOf(c.options, config)]

SameAsAlone ==
    \A i \in DOMAIN calls :
        /\ (calls[i].at = "done")
            => /\ calls[i].result = Alone(AsIssued(calls[i]), 0, NoError, 0).result
               /\ calls[i].fetchCalls = Alone(AsIssued(calls[i]), 0, NoError, 0).fetchCalls
        /\ (calls[i].at = "fetch")
            => /\ calls[i].sent = Intercepted(InitialContext, 1, config.nRequest)
               /\ calls[i].fetchCalls = calls[i].attempt + 1
        /\ calls[i].at # "unissued" => calls[i].attempt <= calls[i].maxRetries

\* a step belongs to one call and changes the locals of that call only
OneCallSteps ==
    \E i \in DOMAIN calls : \A j \in DOMAIN calls \ {i} : calls'[j] = calls[j]

C26_CallsDoNotInterfere == []SameAsAlone /\ [][OneCallSteps]_vars

\* two GETs in flight: the first was answered 500 and is in its second
\* attempt with two transport invocations made, the other has just caught
\* the 429 of its first
C26_Witness ==
    /\ DOMAIN calls = 1 .. MaxCalls
    /\ calls[1].at = "fetch"
    /\ calls[1].method = "GET"
    /\ calls[1].attempt = 1
    /\ calls[1].fetchCalls = 2
    /\ calls[1].lastError.kind = "HTTPError"
    /\ calls[2].at = "caught"
    /\ calls[2].method = "GET"
    /\ calls[2].attempt = 0
    /\ calls[2].fetchCalls = 1
    /\ calls[2].error.kind = "RateLimitError"


(***************************************************************************)
(* C31: a typed error built from a non-2xx response carries the code of    *)
(* the payload when it has one, as details the payload's details field     *)
(* when it has one and the whole parsed payload otherwise, and as          *)
(* requestId the x-request-id header of the response when it has one and   *)
(* nothing otherwise.                                                      *)
(***************************************************************************)
\* what safeParseError hands buildError for this response
ParsedPayload(r) == IF Undecodable(r) THEN NoPayload ELSE ReadPayload(r).payload

HasDetails(payload) == ~payload.nullish /\ ~IsNullish(payload.details)

C31_ErrorCarriesPayloadFields ==
    (pc = "built")
        => LET payload == ParsedPayload(response)
           IN /\ IsHTTPError(thrown)
              /\ thrown.code = (IF payload.nullish THEN JSUndefined ELSE payload.code)
              /\ HasDetails(payload)
                    => ~thrown.details.whole /\ thrown.details.value = payload.details
              /\ (~payload.nullish /\ ~HasDetails(payload))
                    => thrown.details.whole /\ thrown.details.payload = payload
              /\ payload.nullish => thrown.details = NoDetails
              /\ thrown.requestId = (IF response.requestId = JSNull THEN JSUndefined
                                     ELSE response.requestId)

\* a 404 whose payload has a details field and no code, with a request id
C31_Witness ==
    /\ pc = "built"
    /\ response.status = 404
    /\ response.body = DetailsJson
    /\ response.requestId = JSStr(<<"r">>)
    /\ thrown.kind = "HTTPError"
    /\ thrown.details.value = JSStr(<<"d">>)
    /\ thrown.code = JSUndefined
    /\ thrown.requestId = JSStr(<<"r">>)


(***************************************************************************)
(* C32 as stated: for a final 2xx response the call resolves with nothing  *)
(* when the status is 204 or the content-length is 0, else with the        *)
(* JSON-decoded body when the content-type contains application/json, else *)
(* with the raw text, empty text giving nothing.                           *)
(***************************************************************************)
\* the response has no body to read
NoContent(r) == r.status = 204 \/ r.zeroLength

\* JSON.parse of the bodies that are JSON texts
Decoded(t) == IF t = NullJson THEN ValNull ELSE ValJson(JsonParse(t))

IsJsonText(t) == t \in JsonTexts \cup {NullJson}

C32_AsStated ==
    (pc = "parsed" /\ result.kind = "resolved")
        => result.value =
              (IF NoContent(response) THEN ValUndefined
               ELSE IF response.json THEN Decoded(response.body)
               ELSE IF response.body = "" THEN ValUndefined
               ELSE ValText(response.body))

(***************************************************************************)
(* C32: as stated, except that a body decoding to the JSON value null      *)
(* resolves with nothing (the result of parseResponse goes through         *)
(* ?? undefined). A body that does not decode, or cannot be read, makes    *)
(* the attempt throw; the 204 / zero-length rule is applied first.         *)
(***************************************************************************)
C32_ResolvedValue ==
    (pc = "parsed")
        => IF NoContent(response)
           THEN result = Resolved(ValUndefined)
           ELSE IF response.json
           THEN IF ~IsJsonText(response.body)
                THEN result = Pending /\ thrown.src = "parse"
                ELSE IF response.body = NullJson THEN result = Resolved(ValUndefined)
                ELSE result = Resolved(Decoded(response.body))
           ELSE IF response.body = Unreadable
           THEN result = Pending /\ thrown.src = "parse"
           ELSE IF response.body = "" THEN result = Resolved(ValUndefined)
           ELSE result = Resolved(ValText(response.body))

\* a 204 that announces JSON and carries a JSON body resolves with nothing
C32_Witness ==
    /\ pc = "parsed"
    /\ response.status = 204
    /\ response.json
    /\ response.body = "{\"ok\":true}"
    /\ result = Resolved(ValUndefined)


(***************************************************************************)
(* C33 as stated: a body that is raw binary, form data or a string reaches *)
(* the transport as it was given and gets no content-type; any other       *)
(* non-null body is JSON-encoded, with content-type application/json set   *)
(* only when no layer of headers set one; no body is sent for an absent or *)
(* null body.                                                              *)
(***************************************************************************)
\* the headers before the body is looked at
BuiltHeaders ==
    buildHeaders(config, headersArg.static, headersArg.userAgent,
                 headersArg.inBrowser, headersArg.overrides)

\* some layer of headers names a content-type
ContentTypeSet == BuiltHeaders["content-type"] # NoValue

Serialized == pc = "serialized" /\ thrown = NoError

PassesThrough(b) == b \in BinaryBodies \/ b \in FormBodies \/ b.tag = "string"

C33_AsStated ==
    Serialized
        => IF IsNullish(call.body)
           THEN requestContext.body = NoBody /\ headers = BuiltHeaders
           ELSE IF PassesThrough(call.body)
           THEN requestContext.body = RawBody(call.body) /\ headers = BuiltHeaders
           ELSE /\ requestContext.body = JsonBody(call.body)
                /\ headers = (IF ContentTypeSet THEN BuiltHeaders
                               ELSE HeadersSet(BuiltHeaders, "content-type",
                                               "application/json"))

\* what holds of the code: the stated rules for form data, strings, plain
\* objects and absent bodies
C33_FormStringAndJson ==
    (Serialized /\ call.body \notin BinaryBodies) => C33_AsStated


(***************************************************************************)
(* C34: every call eventually settles, after at most maxRetries + 1        *)
(* attempts and at most maxRetries backoff delays, provided every          *)
(* transport invocation, interceptor and timer the call awaits eventually  *)
(* returns, throws or fires.                                               *)
(***************************************************************************)
InProgress == pc \notin {"idle", "done"}

WithinBudget ==
    Started =>
        /\ Len(hist) <= config.maxRetries.val + 1
        /\ fetchCalls <= config.maxRetries.val + 1
        /\ Len(delays) <= config.maxRetries.val
        /\ Len(delays) <= Len(hist)

EndedByCallerAbort(i) ==
    /\ i <= Len(hist)
    /\ hist[i].err.kind = "AbortError"
    /\ controllers[i].reason = "caller"

C35_AsStated ==
    /\ \A i \in 2 .. Len(controllers) :
            ~(AbortedAtStart(i) /\ controllers[i].handed)
    /\ \A i \in 1 .. Len(controllers) :
            EndedByCallerAbort(i) => Len(controllers) = i /\ Len(delays) < i

\* what holds of the code: an attempt started after the abort hands the
\* transport a signal that is aborted already
RetryAfterAbortIsAborted ==
    \A i \in 2 .. Len(controllers) :
        (AbortedAtStart(i) /\ controllers[i].handed) => controllers[i].abortedWhenHanded


(***************************************************************************)
(* C36 as stated: at most one abort listener of the call is registered on  *)
(* the caller's signal at any time, and none once the call has settled.    *)
(***************************************************************************)
\* the attempts whose listener is on the caller's signal: registered at
\* the wiring, dropped only when the signal aborts ({ once: true })
RegisteredListeners ==
    {i \in 1 .. Len(controllers) : controllers[i].listening /\ ~cancel.aborted}

C36_AsStated ==
    /\ Cardinality(RegisteredListeners) <= 1
    /\ pc = "done" => RegisteredListeners = {}


(***************************************************************************)
(* C37 as stated: when the error an attempt failed with is not retryable   *)
(* (AuthError, HTTPError below 500, ValidationError) the call makes no     *)
(* further attempt, whatever the error interceptors do.                    *)
(***************************************************************************)
NotRetryable(e) ==
    \/ e.kind \in {"AuthError", "ValidationError"}
    \/ e.kind = "HTTPError" /\ e.status.val < 500

\* the request loop goes on after a failed attempt
GoesOn == pc \in {"loop", "delay"} /\ Len(hist) >= 1

C37_AsStated == GoesOn => ~NotRetryable(thrown)

\* what holds of the code: the loop goes on after a non-retryable error
\* only when an error interceptor replaced it by an exception of its own
GoesOnOnlyWhenReplaced ==
    (GoesOn /\ NotRetryable(thrown)) =>
        /\ hist[Len(hist)].err.src = "errorInterceptor"
        /\ ~IsMailrifyError(hist[Len(hist)].err)


(***************************************************************************)
(* C38: when a request interceptor throws, the transport is not invoked in *)
(* that attempt, the remaining request interceptors and all response       *)
(* interceptors are skipped, the timer of the attempt is disarmed, and the *)
(* error interceptors receive the thrown error.                            *)
(***************************************************************************)
\* the running attempt failed in a request interceptor
RequestInterceptorThrew ==
    /\ pc \in {"errorInterceptors", "caught"}
    /\ thrown.src = "requestInterceptor"

\* every error interceptor called so far, in order, got the thrown error
ErrorInterceptorsGot(e) ==
    \A j \in 1 .. Len(errRuns) : errRuns[j].who = j /\ errRuns[j].error = e

AfterRequestInterceptorThrew ==
    RequestInterceptorThrew =>
        /\ fetched = 0
        /\ sent = NoContext
        /\ ~controllers[Len(controllers)].handed
        /\ respRuns = <<>>
        /\ ~controllers[Len(controllers)].armed
        /\ ErrorInterceptorsGot(thrown)
        /\ pc = "errorInterceptors" => Len(errRuns) = idx
        /\ (pc = "caught" /\ dispatchError = thrown) => Len(errRuns) = config.nError

\* nothing of the pipeline runs after the throw
NothingMoreRuns ==
    RequestInterceptorThrew =>
        /\ Len(reqRuns') <= Len(reqRuns)
        /\ respRuns' = <<>>
        /\ fetchCalls' = fetchCalls
        /\ thrown' = thrown

C38_RequestInterceptorThrowEndsAttempt ==
    []AfterRequestInterceptorThrew /\ [][NothingMoreRuns]_vars

\* the first of two request interceptors has thrown, the second did not run,
\* and the first error interceptor has been given the error
C38_Witness ==
    /\ RequestInterceptorThrew
    /\ pc = "errorInterceptors"
    /\ config.nRequest = 2
    /\ config.nResponse >= 1
    /\ Len(reqRuns) = 1
    /\ Len(errRuns) = 1
    /\ errRuns[1].error = thrown


(***************************************************************************)
(* C39 as stated: the base address of every client construction accepts is *)
(* a non-empty absolute URL without trailing slash, the production         *)
(* endpoint when none was supplied, so new URL(config.baseUrl) in buildUrl *)
(* never throws.                                                           *)
(***************************************************************************)
\* new URL(text) without a base: [ok |-> FALSE] stands for the TypeError
\* thrown for a text that is no absolute URL
newURL(text) ==
    IF text # <<>> /\ text[1] \in Origins
    THEN [ok |-> TRUE,
          url |-> Url(IF Len(text) = 1 THEN <<"/">> ELSE Tail(text), <<>>, <<>>)]
    ELSE [ok |-> FALSE, url |-> Url(<<>>, <<>>, <<>>)]

NoTrailingSlash(text) == text = <<>> \/ text[Len(text)] # "/"

C39_AsStated ==
    client = "ready" =>
        /\ config.baseUrl.tag = "string"
        /\ config.baseUrl.str # <<>>
        /\ NoTrailingSlash(config.baseUrl.str)
        /\ IsNullish(rawConfig.baseUrl) => config.baseUrl.str = DEFAULT_BASE_URL
        /\ newURL(config.baseUrl.str).ok

\* what holds of the code: the base address is a string without trailing
\* slash, the production endpoint when none was supplied, and a supplied
\* absolute URL stays one
ResolvedBaseUrl ==
    client = "ready" =>
        /\ config.baseUrl.tag = "string"
        /\ NoTrailingSlash(config.baseUrl.str)
        /\ IsNullish(rawConfig.baseUrl) => config.baseUrl.str = DEFAULT_BASE_URL
        /\ (rawConfig.baseUrl.tag = "string" /\ newURL(rawConfig.baseUrl.str).ok) =>
                newURL(config.baseUrl.str).ok

====
